---------------------------- MODULE Spec2Model ----------------------------
(***************************************************************************)
(* A model of parseMoinToMarkdown.py, the MoinMoin -> GitHub Flavoured     *)
(* Markdown translator.  Text is modelled as a sequence of pieces, each a  *)
(* string.  The module holds several specifications over the same          *)
(* variables, one per part of the translator:                              *)
(*   SpecTable      Table.needsHTMLRendering over tables of parsed rows    *)
(*   SpecRow        Table.compose over tables with a header row of texts   *)
(*   SpecList       MoinList.compose, item by item                         *)
(*   SpecTranslate  translate(): resetState, parse, compose, write         *)
(*   SpecLink       the link and path resolver                             *)
(*   SpecPage       translate() over pages that write front matter         *)
(*   SpecInline     translate() over pages of inline formatting tokens     *)
(*   SpecText       translate() over texts of words, spaces and newlines   *)
(*   SpecWikiWord   parse(text, WikiWord) over tokens                      *)
(*   SpecDepth      translate() of pages of one link at several page depths *)
(*   SpecRegion     translate() over pages of region macros                *)
(* Each specification leaves the variables of the other parts alone.       *)
(***************************************************************************)
EXTENDS Integers, Sequences, FiniteSets, TLC

VARIABLES
    table,        \* Table.tableRows: the parsed rows of the table at hand
    tblResult,    \* what Table.needsHTMLRendering returned for it ("none": not called yet)
    tblOut,       \* the text Table.compose returned in the simplified format
    inBold,       \* Bold.inBold
    inItalic,     \* Italic.inItalic
    inUnderline,  \* Underline.inUnderline
    inCodeBlock,  \* CodeBlockStart.inCodeBlock
    indentLevel,  \* MoinList.indentLevel
    indentBase,   \* MoinList.indentBase
    lpc,          \* where MoinList.compose stands: "idle", "inList", "ended"
    depths,       \* MoinList.compose's local depth stack
    listItems,    \* the items of the list composed so far
    levels,       \* the indent level trackIndent returned for each of them
    bases,        \* the base depth MoinList.compose handed trackIndent for each of them
    lout,         \* MoinList.compose's local out
    pageYaml,     \* the global pageYaml: a set of <<key, value text>>, one per key
    tpc,          \* where translate stands: "idle", "composing", "done", "failed"
    doc,          \* parsedMoin: the elements of the parsed document
    composed,     \* how many of them compose has walked
    out,          \* markdownText as composed so far
    destFile,     \* the destination file of this call: "unopened" or its text
    translations, \* calls of translate so far
    entry,        \* the module state each call of translate found
    wikiRoot,     \* the global wikiRoot
    wikiRootParts,\* the global wikiRootParts
    emitted,      \* the link or path compose is at, and what it returned for it
    interWikiMap, \* the global interWikiMap: interwiki name -> url
    source,       \* what the source file of this call of translate holds
    parsed,       \* whether this call of translate has called parse
    srcText,      \* the text of the source file, or the text a test hands to
                  \* parse, character by character
    moinText,     \* translate's moinText as handed to parse
    accepted,     \* what parse did with the text of a test: "none", "parsed", "raised"
    pageDepth,    \* the global pageDepth
    written       \* the calls of translate compared: root, depth, page, text written

tblVars == <<table, tblResult, tblOut>>
flagVars == <<inBold, inItalic, inUnderline>>
listVars == <<lpc, depths, listItems, levels, bases, lout>>
trVars == <<pageYaml, tpc, doc, composed, out, destFile, translations, entry,
            source, parsed, srcText, moinText, accepted, pageDepth, written>>
linkVars == <<wikiRoot, wikiRootParts, emitted, interWikiMap>>
vars == <<table, tblResult, tblOut, inBold, inItalic, inUnderline, inCodeBlock,
          indentLevel, indentBase, lpc, depths, listItems, levels, bases, lout,
          pageYaml, tpc, doc, composed, out, destFile, translations, entry,
          wikiRoot, wikiRootParts, emitted, interWikiMap, source, parsed,
          srcText, moinText, accepted, pageDepth, written>>

(***************************************************************************)
(* Bounds of the model.                                                    *)
(***************************************************************************)
MaxRows == 2
MaxCells == 1
MaxAttrs == 2
MaxItems == 5
MaxDocLen == 3
MaxDocs == 2
MaxPieces == 4
MaxAnchorLen == 2
MaxTextLen == 5     \* characters of a source text
MaxTokenLen == 5    \* characters of a token handed to the WikiWord grammar
MaxDepth == 2       \* the greatest page depth handed to translate
MaxCalls == 2       \* calls of translate whose output is compared
MaxCellLen == 5     \* characters of the text of a header cell

(***************************************************************************)
(* Tables.  A row carries what TableRow's grammar captures: rowClass,      *)
(* rowStyle, firstCellClass, firstCellFormat, firstCellContent and         *)
(* rowCells; a cell carries cellClass, cellFormat and cellContent.  "none" *)
(* stands for an attribute the parser did not set (hasattr is False); a    *)
(* content is the text its subelements compose to.                         *)
(***************************************************************************)
ClassNames == {"th", "note"}
FormatItems == {"colspan", "style"}

\* the text of a cell as composed, one piece a character
CellText(n) == [i \in 1..n |-> "a"]

PlainCell == [cellClass |-> "none", cellFormat |-> "none", cellContent |-> CellText(1)]

PlainRow(n) ==
    [rowClass |-> "none", rowStyle |-> FALSE, firstCellClass |-> "none",
     firstCellFormat |-> "none", firstCellContent |-> CellText(1),
     rowCells |-> [i \in 1..n |-> PlainCell]]

\* CellClass.isHeader / RowClass.isHeader on an attribute that is present
isHeader(cls) == cls = "th"

\* hasattr(cell, "cellStyle"): TableCell's grammar sets cellClass, cellFormat
\* and cellContent only, so no cell ever has this attribute
hasCellStyle(cell) == FALSE

\* a rowIsHeader that forgets the row-level flag
rowIsHeader_cellsOnly(row) ==
    IF row.firstCellClass # "none" /\ isHeader(row.firstCellClass)
    THEN \A i \in 1..Len(row.rowCells) :
            row.rowCells[i].cellClass # "none" /\ isHeader(row.rowCells[i].cellClass)
    ELSE FALSE

rowIsHeader(row) ==
    IF row.rowClass # "none" /\ isHeader(row.rowClass)
    THEN TRUE
    ELSE IF row.firstCellClass # "none" /\ isHeader(row.firstCellClass)
    THEN \A i \in 1..Len(row.rowCells) :
            row.rowCells[i].cellClass # "none" /\ isHeader(row.rowCells[i].cellClass)
    ELSE FALSE      \* falls off the end: None

\* the loop over row.rowCells: TRUE when it returns True
cellsNeedHTML(row, rowIdx) ==
    \E i \in 1..Len(row.rowCells) :
        \/ /\ row.rowCells[i].cellClass # "none"
           /\ (rowIdx > 0 \/ ~isHeader(row.rowCells[i].cellClass))
        \/ hasCellStyle(row.rowCells[i])

RECURSIVE scanRows(_, _, _)
scanRows(rows, rowIdx, firstRowIsHeader) ==
    IF rowIdx >= Len(rows)
    THEN (IF firstRowIsHeader THEN FALSE ELSE TRUE)
    ELSE LET row == rows[rowIdx + 1]
             hdrHere == row.rowClass # "none" /\ rowIsHeader(row) /\ rowIdx = 0
         IN  IF row.rowClass # "none" /\ ~hdrHere THEN TRUE
             ELSE IF row.rowStyle \/ row.firstCellFormat # "none" THEN TRUE
             ELSE IF /\ row.firstCellClass # "none"
                     /\ (rowIdx > 0 \/ ~isHeader(row.firstCellClass)) THEN TRUE
             ELSE IF cellsNeedHTML(row, rowIdx) THEN TRUE
             ELSE scanRows(rows, rowIdx + 1, firstRowIsHeader \/ hdrHere)

needsHTMLRendering(rows) == scanRows(rows, 0, FALSE)

RECURSIVE Concat(_)
Concat(texts) == IF texts = <<>> THEN <<>> ELSE Head(texts) \o Concat(Tail(texts))

\* "-" * n
dashes(n) == [i \in 1..n |-> "-"]

max(a, b) == IF a >= b THEN a ELSE b

\* a run of the header line without the floor of 3 hyphens
headerRun_noFloor(cellText, margin) == dashes(Len(cellText) - margin)

\* "-" * max(3, (len(cellText) - margin)): header lines must have at least 3
\* hyphens to work
headerRun(cellText, margin) == dashes(max(3, Len(cellText) - margin))

\* a row that puts the header line under itself whether it is a header or not
TableRow_compose_alwaysHeader(row) ==
    LET firstCellText == <<"|", " ">> \o row.firstCellContent
        cellText(i) == <<" ">> \o row.rowCells[i].cellContent
        n == Len(row.rowCells)
        rowOut == firstCellText \o <<"|", " ">>
                  \o Concat([i \in 1..n |-> cellText(i) \o <<" ", "|", " ">>])
        headerOut == <<"|", " ">> \o headerRun(firstCellText, 3) \o <<" ", "|", " ">>
                     \o Concat([i \in 1..n |-> headerRun(cellText(i), 1) \o <<" ", "|", " ">>])
    IN  rowOut \o <<"\n">> \o headerOut \o <<"\n">>

\* TableRow.compose: the row in Markdown, a character a piece; a header row
\* is followed by the header line
TableRow_compose(row) ==
    LET firstCellText == <<"|", " ">> \o row.firstCellContent
        cellText(i) == <<" ">> \o row.rowCells[i].cellContent
        n == Len(row.rowCells)
        rowOut == firstCellText \o <<"|", " ">>
                  \o Concat([i \in 1..n |-> cellText(i) \o <<" ", "|", " ">>])
        headerOut == <<"|", " ">> \o headerRun(firstCellText, 3) \o <<" ", "|", " ">>
                     \o Concat([i \in 1..n |-> headerRun(cellText(i), 1) \o <<" ", "|", " ">>])
    IN  rowOut \o <<"\n">> \o (IF rowIsHeader(row) THEN headerOut \o <<"\n">> ELSE <<>>)

\* Table.compose where the table can be rendered in Markdown
Table_compose(rows) ==
    <<"\n">> \o Concat([r \in 1..Len(rows) |-> TableRow_compose(rows[r])])

\* number of attributes set in the table
RECURSIVE SumSeq(_)
SumSeq(s) == IF s = <<>> THEN 0 ELSE Head(s) + SumSeq(Tail(s))

B2N(b) == IF b THEN 1 ELSE 0

CellAttrs(cell) == B2N(cell.cellClass # "none") + B2N(cell.cellFormat # "none")

RowAttrs(row) ==
    B2N(row.rowClass # "none") + B2N(row.rowStyle) + B2N(row.firstCellClass # "none")
    + B2N(row.firstCellFormat # "none")
    + SumSeq([i \in 1..Len(row.rowCells) |-> CellAttrs(row.rowCells[i])])

TableAttrs(rows) == SumSeq([r \in 1..Len(rows) |-> RowAttrs(rows[r])])

(***************************************************************************)
(* SpecTable: a table is written (rows of plain cells, then attributes put *)
(* on rows and cells), and Table.compose asks needsHTMLRendering.          *)
(***************************************************************************)
TableIdle == table = <<>> /\ tblResult = "none" /\ tblOut = <<>>

\* the class attributes as the module defines them
FlagsInitial == inBold = FALSE /\ inItalic = FALSE /\ inUnderline = FALSE

ListStateInitial == inCodeBlock = FALSE /\ indentLevel = 0 /\ indentBase = 0

ListIdle ==
/\ lpc = "idle" /\ depths = <<>> /\ listItems = <<>> /\ levels = <<>>
    /\ bases = <<>> /\ lout = <<>>

(***************************************************************************)
(* String operations on texts.  In a path read from the source "/" and "." *)
(* are always pieces of their own, so that a piece sequence starts with,   *)
(* contains or splits at "../" and "/" exactly where the string does.      *)
(***************************************************************************)
\* str.count(sub): occurrences that do not overlap, from the left
RECURSIVE count(_, _)
count(str, sub) ==
    IF Len(str) < Len(sub) THEN 0
    ELSE IF SubSeq(str, 1, Len(sub)) = sub
         THEN 1 + count(SubSeq(str, Len(sub) + 1, Len(str)), sub)
         ELSE count(Tail(str), sub)

\* str.replace(old, new)
RECURSIVE replace(_, _, _)
replace(str, old, new) ==
    IF Len(str) < Len(old) THEN str
    ELSE IF SubSeq(str, 1, Len(old)) = old
         THEN new \o replace(SubSeq(str, Len(old) + 1, Len(str)), old, new)
         ELSE <<Head(str)>> \o replace(Tail(str), old, new)

\* str.split(sep) for a separator of one piece: the list of the texts between
RECURSIVE split(_, _)
split(str, sep) ==
    IF \A i \in 1..Len(str) : str[i] # sep THEN <<str>>
    ELSE LET i == CHOOSE i \in 1..Len(str) :
                      str[i] = sep /\ \A j \in 1..(i - 1) : str[j] # sep
         IN  <<SubSeq(str, 1, i - 1)>> \o split(SubSeq(str, i + 1, Len(str)), sep)

\* sep.join(parts)
RECURSIVE join(_, _)
join(sep, parts) ==
    IF parts = <<>> THEN <<>>
    ELSE IF Len(parts) = 1 THEN parts[1]
         ELSE parts[1] \o <<sep>> \o join(sep, Tail(parts))

\* list[0:stop], stop counted from the end when negative
slice0(list, stop) ==
    LET n == Len(list)
        e == IF stop < 0 THEN n + stop ELSE stop
    IN  SubSeq(list, 1, IF e < 0 THEN 0 ELSE IF e > n THEN n ELSE e)

\* the --pagedepth default
DefaultDepth == 0

\* the --wikiroot default
DefaultRoot == <<"/", "src">>

\* wikiRoot.split("/") without its first, empty, part
rootParts(root) == Tail(split(root, "/"))

NoEmit ==
    [kind |-> "none", html |-> FALSE, pagePart |-> <<>>, anchorPart |-> <<>>,
     linkText |-> "", rootPath |-> <<>>, text |-> <<>>, raised |-> FALSE,
     attached |-> "none", display |-> "none", interWikiName |-> "", error |-> ""]

\* the module's interWikiMap, each entry by its url
interWikiMapInitial ==
    "devthread" :> "http://dev.list.galaxyproject.org/" @@
    "userthread" :> "http://user.list.galaxyproject.org/" @@
    "announcethread" :> "http://announce.list.galaxyproject.org/" @@
    "francethread" :> "http://france.list.galaxyproject.org/" @@
    "trello" :> "https://trello.com/b/75c1kASa/galaxy-development" @@
    "toolshedview" :> "http://toolshed.g2.bx.psu.edu/view/" @@
    "src" :> "https://github.com/galaxyproject/galaxy/tree/master/" @@
    "srcdoccentral" :> "https://galaxy-central.readthedocs.org/en/latest/" @@
    "srcdocdist" :> "https://galaxy-dist.readthedocs.org/en/latest/" @@
    "gmod" :> "http://gmod.org/wiki/" @@
    "pmid" :> "http://www.ncbi.nlm.nih.gov/pubmed/" @@
    "main" :> "https://usegalaxy.org/" @@
    "data_libraries" :> "https://usegalaxy.org/library/" @@
    "published_histories" :> "https://usegalaxy.org/history/list_published" @@
    "published_workflows" :> "https://usegalaxy.org/workflow/list_published" @@
    "published_visualizations" :> "https://usegalaxy.org/visualization/list_published" @@
    "published_pages" :> "https://usegalaxy.org/page/list_published" @@
    "bbissue" :> "https://bitbucket.org/galaxy/galaxy-central/issue/" @@
    "screencast" :> "http://screencast.g2.bx.psu.edu/" @@
    "devlistthread" :> "http://dev.list.galaxyproject.org/" @@
    "moinmoin" :> "http://moinmo.in/" @@
    "wikipedia" :> "https://en.wikipedia.org/wiki/"

LinkIdle ==
    /\ wikiRoot = DefaultRoot /\ wikiRootParts = rootParts(DefaultRoot)
    /\ emitted = NoEmit
    /\ interWikiMap = interWikiMapInitial

\* the module state a translation works on
Globals ==
    [inBold |-> inBold, inItalic |-> inItalic, inUnderline |-> inUnderline,
     inCodeBlock |-> inCodeBlock, indentLevel |-> indentLevel,
     indentBase |-> indentBase, pageYaml |-> pageYaml]

\* the class attributes as defined, and no front matter
InitialGlobals ==
    [inBold |-> FALSE, inItalic |-> FALSE, inUnderline |-> FALSE,
     inCodeBlock |-> FALSE, indentLevel |-> 0, indentBase |-> 0, pageYaml |-> {}]

TranslateIdle ==
    /\ pageYaml = {} /\ tpc = "idle" /\ doc = <<>> /\ composed = 0 /\ out = <<>>
    /\ destFile = "unopened" /\ translations = 0 /\ entry = InitialGlobals
    /\ source = "none" /\ parsed = FALSE
    /\ srcText = <<>> /\ moinText = <<>> /\ accepted = "none"
    /\ pageDepth = DefaultDepth /\ written = <<>>

TableInit ==
    /\ table \in UNION {[1..n -> {PlainRow(k) : k \in 0..MaxCells}] : n \in 1..MaxRows}
    /\ tblResult = "none" /\ tblOut = <<>>
    /\ FlagsInitial /\ ListStateInitial /\ ListIdle /\ TranslateIdle /\ LinkIdle

notTblVars == <<inBold, inItalic, inUnderline, inCodeBlock, indentLevel, indentBase,
                listVars, trVars, linkVars>>

CanEdit == tblResult = "none" /\ TableAttrs(table) < MaxAttrs

SetRowClass ==
    \E r \in 1..Len(table), c \in ClassNames :
        /\ CanEdit /\ table[r].rowClass = "none"
        /\ table' = [table EXCEPT ![r].rowClass = c]
        /\ UNCHANGED <<tblResult, tblOut, notTblVars>>

SetRowStyle ==
    \E r \in 1..Len(table) :
        /\ CanEdit /\ ~table[r].rowStyle
        /\ table' = [table EXCEPT ![r].rowStyle = TRUE]
        /\ UNCHANGED <<tblResult, tblOut, notTblVars>>

SetFirstCellClass ==
    \E r \in 1..Len(table), c \in ClassNames :
        /\ CanEdit /\ table[r].firstCellClass = "none"
        /\ table' = [table EXCEPT ![r].firstCellClass = c]
        /\ UNCHANGED <<tblResult, tblOut, notTblVars>>

SetFirstCellFormat ==
    \E r \in 1..Len(table), f \in FormatItems :
        /\ CanEdit /\ table[r].firstCellFormat = "none"
        /\ table' = [table EXCEPT ![r].firstCellFormat = f]
        /\ UNCHANGED <<tblResult, tblOut, notTblVars>>

SetCellClass ==
    \E r \in 1..Len(table), c \in ClassNames :
        \E i \in 1..Len(table[r].rowCells) :
            /\ CanEdit /\ table[r].rowCells[i].cellClass = "none"
            /\ table' = [table EXCEPT ![r].rowCells[i].cellClass = c]
            /\ UNCHANGED <<tblResult, tblOut, notTblVars>>

SetCellFormat ==
    \E r \in 1..Len(table), f \in FormatItems :
        \E i \in 1..Len(table[r].rowCells) :
            /\ CanEdit /\ table[r].rowCells[i].cellFormat = "none"
            /\ table' = [table EXCEPT ![r].rowCells[i].cellFormat = f]
            /\ UNCHANGED <<tblResult, tblOut, notTblVars>>

\* Table.compose: the question it asks before rendering, and the Markdown
\* text where the answer is no (the HTML text is left out)
TableCompose ==
    /\ tblResult = "none"
    /\ tblResult' = (IF needsHTMLRendering(table) THEN "html" ELSE "gfm")
    /\ tblOut' = (IF needsHTMLRendering(table) THEN <<>> ELSE Table_compose(table))
    /\ UNCHANGED <<table, notTblVars>>

TableNext ==
    \/ SetRowClass \/ SetRowStyle \/ SetFirstCellClass \/ SetFirstCellFormat
    \/ SetCellClass \/ SetCellFormat
    \/ TableCompose

SpecTable == TableInit /\ [][TableNext]_vars

(***************************************************************************)
(* SpecRow: Table.compose over tables whose first row has cells of texts   *)
(* of several lengths; the rows under it have as many cells, of one        *)
(* character each.                                                         *)
(***************************************************************************)
\* a row without attributes: a first cell and one more cell for each length
TextRow(firstLen, lens) ==
    [PlainRow(Len(lens)) EXCEPT
        !.firstCellContent = CellText(firstLen),
        !.rowCells = [i \in 1..Len(lens) |-> [PlainCell EXCEPT !.cellContent = CellText(lens[i])]]]

RowInit ==
    /\ \E n \in 1..MaxRows, k \in 0..MaxCells :
        \E firstLen \in 0..MaxCellLen, len \in 0..MaxCellLen :
            table = <<TextRow(firstLen, [i \in 1..k |-> len])>>
                    \o [r \in 1..(n - 1) |-> PlainRow(k)]
    /\ tblResult = "none" /\ tblOut = <<>>
    /\ FlagsInitial /\ ListStateInitial /\ ListIdle /\ TranslateIdle /\ LinkIdle

\* classes are put on rows and cells, and the table is composed
RowNext == SetRowClass \/ SetFirstCellClass \/ SetCellClass \/ TableCompose

SpecRow == RowInit /\ [][RowNext]_vars

(***************************************************************************)
(* Claims about the table engine (checked under SpecTable).                *)
(***************************************************************************)
NoCellFormat(rows) ==
    \A r \in 1..Len(rows) :
        /\ rows[r].firstCellFormat = "none"
        /\ \A i \in 1..Len(rows[r].rowCells) : rows[r].rowCells[i].cellFormat = "none"

NoRowStyle(rows) == \A r \in 1..Len(rows) : ~rows[r].rowStyle

NoCellClass(rows, fromRow) ==
    \A r \in fromRow..Len(rows) :
        /\ rows[r].firstCellClass = "none"
        /\ \A i \in 1..Len(rows[r].rowCells) : rows[r].rowCells[i].cellClass = "none"

RowLevelHeaderOnly(rows) ==
    /\ rows[1].rowClass = "th"
    /\ \A r \in 2..Len(rows) : rows[r].rowClass = "none"
    /\ NoRowStyle(rows) /\ NoCellClass(rows, 1) /\ NoCellFormat(rows)

\* C1: a table whose first row has rowclass "th" and that has no other row
\* class, no row style, no cell class and no cell format is rendered in the
\* simplified format: needsHTMLRendering returns False.
C1_RowHeaderTableIsGfm ==
    (tblResult # "none" /\ RowLevelHeaderOnly(table)) => tblResult = "gfm"

C1_Witness ==
    /\ tblResult = "gfm" /\ RowLevelHeaderOnly(table)
    /\ Len(table) = 2 /\ Len(table[1].rowCells) = 1 /\ Len(table[2].rowCells) = 1

\* the table with the format of one cell taken away (cell 0 is the first cell)
WithoutFormat(rows, r, i) ==
    IF i = 0 THEN [rows EXCEPT ![r].firstCellFormat = "none"]
    ELSE [rows EXCEPT ![r].rowCells[i].cellFormat = "none"]

FormatAt(rows, r, i) ==
    IF i = 0 THEN rows[r].firstCellFormat ELSE rows[r].rowCells[i].cellFormat

\* C2: a table obtained from one that needsHTMLRendering accepts for the
\* simplified format by adding one format attribute to one cell, first cell or
\* later cell, of any row, makes needsHTMLRendering return True.
C2_AddedCellFormatForcesHtml ==
    tblResult # "none" =>
        \A r \in 1..Len(table) : \A i \in 0..Len(table[r].rowCells) :
            (/\ FormatAt(table, r, i) # "none"
             /\ ~needsHTMLRendering(WithoutFormat(table, r, i)))
            => tblResult = "html"

CellwiseHeaderOnly(rows) ==
    /\ rows[1].firstCellClass = "th"
    /\ \A i \in 1..Len(rows[1].rowCells) : rows[1].rowCells[i].cellClass = "th"
    /\ \A r \in 1..Len(rows) : rows[r].rowClass = "none"
    /\ NoRowStyle(rows) /\ NoCellFormat(rows) /\ NoCellClass(rows, 2)

\* C3: a table whose first row is made a header by class "th" on its first
\* cell and on each following cell, with no row class, no row style, no cell
\* format and no class on a later row, is rendered in the simplified format:
\* needsHTMLRendering returns False.
C3_CellwiseHeaderTableIsGfm ==
    (tblResult # "none" /\ CellwiseHeaderOnly(table)) => tblResult = "gfm"

(***************************************************************************)
(* The list engine.  An item carries the depth of its leading             *)
(* @INDENT-n@ marker, its optional item marker and its subelements (one    *)
(* here: plain text, a code-block start or a code-block end).              *)
(***************************************************************************)
ItemMarkers == {"*", "none"}
ItemSubelements == {"PlainText", "CodeBlockStart", "CodeBlockEnd"}

\* the items a list line can parse to: any shape at depths 1 and 3, and a
\* bulleted text item at depth 2
ListItemShapes ==
    {[depth |-> d, itemMarker |-> m, item |-> "PlainText"] : d \in {1, 3}, m \in ItemMarkers}
    \cup {[depth |-> d, itemMarker |-> "none", item |-> k] :
             d \in {1, 3}, k \in {"CodeBlockStart", "CodeBlockEnd"}}
    \cup {[depth |-> 2, itemMarker |-> "*", item |-> "PlainText"]}

RECURSIVE Spaces(_)
Spaces(n) == IF n <= 0 THEN <<>> ELSE <<" ">> \o Spaces(n - 1)

\* the three backquotes of a Markdown code fence, as one piece of text (a
\* TLA+ string cannot hold a backquote)
Fence == "FENCE"

\* compose() of a subelement of an item, in Markdown
subelementText(kind) ==
    CASE kind = "PlainText" -> <<"a">>
      [] kind = "CodeBlockStart" -> <<Fence>>
      [] kind = "CodeBlockEnd" -> <<Fence, "\n">>

\* CodeBlockStart.inCodeBlock after composing the subelement
subelementInCodeBlock(kind, cur) ==
    CASE kind = "CodeBlockStart" -> TRUE
      [] kind = "CodeBlockEnd" -> FALSE
      [] OTHER -> cur

\* a loop that does not run: nothing more is popped
popWhileShallower_once(depthStack, itemDepth) == depthStack

RECURSIVE popWhileShallower(_, _)
popWhileShallower(depthStack, itemDepth) ==
    IF Len(depthStack) > 0 /\ itemDepth < depthStack[Len(depthStack)]
    THEN popWhileShallower(SubSeq(depthStack, 1, Len(depthStack) - 1), itemDepth)
    ELSE depthStack

\* a trackIndent that forgets to push the item's depth back after popping
trackIndent_noRepush(depth, depthStack, baseDepth) ==
    LET itemDepth == depth + baseDepth
        top == depthStack[Len(depthStack)]
    IN  IF itemDepth > top THEN Append(depthStack, itemDepth)
        ELSE IF itemDepth < top
        THEN LET popped == popWhileShallower(
                               SubSeq(depthStack, 1, Len(depthStack) - 1), itemDepth)
             IN  IF Len(popped) = 0 THEN Append(popped, itemDepth) ELSE popped
        ELSE depthStack

\* LeadingSpaces.trackIndent: the depth stack it leaves; the level it returns
\* is the height of that stack minus one
trackIndent(depth, depthStack, baseDepth) ==
    LET itemDepth == depth + baseDepth
        top == depthStack[Len(depthStack)]
    IN  IF itemDepth > top THEN Append(depthStack, itemDepth)
        ELSE IF itemDepth < top
        THEN LET popped == popWhileShallower(
                               SubSeq(depthStack, 1, Len(depthStack) - 1), itemDepth)
             IN  IF Len(popped) = 0 \/ popped[Len(popped)] < itemDepth
                 THEN Append(popped, itemDepth)
                 ELSE popped
        ELSE depthStack

\* a MoinListItem.compose whose item text ends without its newline
MoinListItem_compose_noNewline(item, level) ==
    Spaces(level * 2)
    \o (IF item.itemMarker # "none" THEN <<item.itemMarker, " ">> ELSE <<" ", " ">>)
    \o subelementText(item.item)

\* MoinListItem.compose, with MoinList.indentLevel = level
MoinListItem_compose(item, level) ==
    Spaces(level * 2)
    \o (IF item.itemMarker # "none" THEN <<item.itemMarker, " ">> ELSE <<" ", " ">>)
    \o subelementText(item.item)
    \o <<"\n">>

\* the indentBase MoinList.compose settles on before it tracks an item
nextIndentBase(inCode, level, base) ==
    IF inCode /\ base = 0 THEN level
    ELSE IF ~inCode /\ base # 0 THEN 0
    ELSE base

\* one turn of the loop of MoinList.compose
\* the level taken from the depth on top of the stack, not from its height
MoinList_composeItem_levelByDepth(st, item) ==
    LET base == nextIndentBase(st.inCodeBlock, st.indentLevel, st.indentBase)
        stack == trackIndent(item.depth, st.depths, base)
        level == stack[Len(stack)] - 1
    IN  [inCodeBlock |-> subelementInCodeBlock(item.item, st.inCodeBlock),
         indentLevel |-> level,
         indentBase |-> base,
         depths |-> stack,
         out |-> st.out \o MoinListItem_compose(item, level)]

MoinList_composeItem(st, item) ==
    LET base == nextIndentBase(st.inCodeBlock, st.indentLevel, st.indentBase)
        stack == trackIndent(item.depth, st.depths, base)
        level == Len(stack) - 1
    IN  [inCodeBlock |-> subelementInCodeBlock(item.item, st.inCodeBlock),
         indentLevel |-> level,
         indentBase |-> base,
         depths |-> stack,
         out |-> st.out \o MoinListItem_compose(item, level)]

(***************************************************************************)
(* SpecList: lists are composed one after the other within a document;     *)
(* between two lists a code block may be opened or closed at the top       *)
(* level.                                                                  *)
(***************************************************************************)
ListInit ==
    /\ TableIdle /\ FlagsInitial /\ TranslateIdle /\ LinkIdle
    /\ ListStateInitial /\ ListIdle

notListVars == <<tblVars, inBold, inItalic, inUnderline, trVars, linkVars>>

ListState ==
    [inCodeBlock |-> inCodeBlock, indentLevel |-> indentLevel,
     indentBase |-> indentBase, depths |-> depths, out |-> lout]

ListTakes(st, item) ==
    /\ inCodeBlock' = st.inCodeBlock
    /\ indentLevel' = st.indentLevel
    /\ indentBase' = st.indentBase
    /\ depths' = st.depths
    /\ lout' = st.out
    /\ listItems' = (IF lpc = "inList" THEN listItems ELSE <<>>) \o <<item>>
    /\ levels' = (IF lpc = "inList" THEN levels ELSE <<>>) \o <<st.indentLevel>>
    /\ bases' = (IF lpc = "inList" THEN bases ELSE <<>>) \o <<st.indentBase>>

\* MoinList.compose up to the end of its first turn: the first item of a
\* list carries an item marker
ListBegin ==
    \E item \in ListItemShapes :
        /\ lpc = "idle"
        /\ item.itemMarker # "none"
        /\ LET st0 == [ListState EXCEPT !.depths = <<item.depth>>, !.out = <<>>]
           IN  ListTakes(MoinList_composeItem(st0, item), item)
        /\ lpc' = "inList"
        /\ UNCHANGED notListVars

ListItem ==
    \E item \in ListItemShapes :
        /\ lpc = "inList"
        /\ Len(listItems) < MaxItems
        /\ ListTakes(MoinList_composeItem(ListState, item), item)
        /\ UNCHANGED <<lpc, notListVars>>

\* the end of MoinList.compose: the trailing blank line
ListEnd ==
    /\ lpc = "inList"
    /\ lout' = lout \o <<"\n">>
    /\ lpc' = "ended"
    /\ UNCHANGED <<inCodeBlock, indentLevel, indentBase, depths, listItems, levels,
                   bases, notListVars>>

\* MoinList.compose has returned
ListReturn ==
    /\ lpc = "ended"
    /\ lpc' = "idle" /\ depths' = <<>> /\ listItems' = <<>> /\ levels' = <<>>
    /\ bases' = <<>> /\ lout' = <<>>
    /\ UNCHANGED <<inCodeBlock, indentLevel, indentBase, notListVars>>

\* CodeBlockStart.compose / CodeBlockEnd.compose of a top-level element
ElementCodeBlock ==
    \E kind \in {"CodeBlockStart", "CodeBlockEnd"} :
        /\ lpc = "idle"
        /\ inCodeBlock' = subelementInCodeBlock(kind, inCodeBlock)
        /\ inCodeBlock' # inCodeBlock
        /\ UNCHANGED <<indentLevel, indentBase, listVars, notListVars>>

ListNext == ListBegin \/ ListItem \/ ListEnd \/ ListReturn \/ ElementCodeBlock

SpecList == ListInit /\ [][ListNext]_vars

(***************************************************************************)
(* Claims about the list engine (checked under SpecList).                  *)
(***************************************************************************)
Top(stack) == stack[Len(stack)]

Pop(stack) == SubSeq(stack, 1, Len(stack) - 1)

RECURSIVE PopWhile(_, _)
PopWhile(stack, d) ==
    IF stack # <<>> /\ d < Top(stack) THEN PopWhile(Pop(stack), d) ELSE stack

\* the procedure as first stated: push if deeper than the top, pop while
\* shallower than the top
StatedStack(stack, d) ==
    PopWhile(IF stack = <<>> \/ d > Top(stack) THEN Append(stack, d) ELSE stack, d)

\* the procedure as amended: after popping, the item's depth is pushed when
\* the stack is empty or its top is shallower than the item
AmendedStack(stack, d) ==
    LET popped == StatedStack(stack, d)
    IN  IF popped = <<>> \/ Top(popped) < d THEN Append(popped, d) ELSE popped

\* the absolute depth of the i-th item of the list at hand
AbsDepth(i) == listItems[i].depth + bases[i]

RECURSIVE StatedStackAfter(_)
StatedStackAfter(i) ==
    IF i = 0 THEN <<listItems[1].depth>>
    ELSE StatedStack(StatedStackAfter(i - 1), AbsDepth(i))

RECURSIVE AmendedStackAfter(_)
AmendedStackAfter(i) ==
    IF i = 0 THEN <<listItems[1].depth>>
    ELSE AmendedStack(AmendedStackAfter(i - 1), AbsDepth(i))

\* the line of an item rendered at a level: two spaces per level, then the
\* marker and a space (two spaces when there is no marker), the text, a newline
LineAt(item, level) ==
    [k \in 1..(2 * level) |-> " "]
    \o (IF item.itemMarker = "none" THEN <<" ", " ">> ELSE <<item.itemMarker, " ">>)
    \o subelementText(item.item) \o <<"\n">>

RECURSIVE LinesUpTo(_)
LinesUpTo(i) ==
    IF i = 0 THEN <<>>
    ELSE LinesUpTo(i - 1) \o LineAt(listItems[i], Len(AmendedStackAfter(i)) - 1)

ItemDepthsSeen == [i \in 1..Len(listItems) |-> listItems[i].depth]

\* C6 as stated: every item is rendered at the height minus one of the stack
\* that "push if deeper, pop while shallower" leaves.
C6_LevelsFollowStatedProcedure ==
    lpc = "inList" =>
        \A i \in 1..Len(listItems) : levels[i] = Len(StatedStackAfter(i)) - 1

\* C6 (amended): every item is rendered at the height minus one of the stack
\* left by: push the absolute depth if deeper than the top, pop while it is
\* shallower than the top, then push it if the stack is empty or its top is
\* shallower; each level is two spaces of prefix; and items at depths
\* 1, 1, 3, 3, 1 (no code block) get levels 0, 0, 1, 1, 0.
C6_LevelsFollowAmendedProcedure ==
    lpc = "inList" =>
        /\ \A i \in 1..Len(listItems) : levels[i] = Len(AmendedStackAfter(i)) - 1
        /\ depths = AmendedStackAfter(Len(listItems))
        /\ lout = LinesUpTo(Len(listItems))
        /\ (ItemDepthsSeen = <<1, 1, 3, 3, 1>> /\ \A i \in 1..5 : bases[i] = 0)
              => levels = <<0, 0, 1, 1, 0>>

\* the list 1, 1, 3, 3, 1 composed outside any code block
C6_Witness ==
    /\ lpc = "inList"
    /\ ItemDepthsSeen = <<1, 1, 3, 3, 1>> /\ bases = <<0, 0, 0, 0, 0>>
    /\ levels = <<0, 0, 1, 1, 0>>

Last(text, k) == text[Len(text) + 1 - k]

ToggleKinds == {"Bold", "Italic", "Underline"}

\* a nested list that opens a code block and leaves it open
ListOpenCode ==
    <<[depth |-> 1, itemMarker |-> "*", item |-> "PlainText"],
      [depth |-> 3, itemMarker |-> "none", item |-> "CodeBlockStart"],
      [depth |-> 3, itemMarker |-> "none", item |-> "PlainText"]>>

DocElements ==
    {[kind |-> k, html |-> h] : k \in ToggleKinds, h \in BOOLEAN}
    \cup {[kind |-> k, html |-> FALSE] :
             k \in {"CodeBlockStart", "CodeBlockEnd", "TOCMacro", "RedirectPI", "MoinList"}}

\* what composing an element gives: the module state after it, the text it
\* returns, and whether it raised instead
Composed(g, text) == [g |-> g, text |-> text, raised |-> FALSE]

\* a raise that is swallowed: the element composes to nothing and the walk goes on
Raised_swallowed(g) == [g |-> g, text |-> <<>>, raised |-> FALSE]

Raised(g) == [g |-> g, text |-> <<>>, raised |-> TRUE]

\* a Bold.composeHtml that emits the opening tag without flipping the flag
Bold_composeHtml_noFlip(g) == Composed(g, <<"<strong>">>)

Bold_composeHtml(g) ==
    LET now == ~g.inBold
    IN  Composed([g EXCEPT !.inBold = now],
                 IF now THEN <<"<strong>">> ELSE <<"</strong>">>)

Bold_compose(g) == Composed(g, <<"**">>)

Italic_composeHtml(g) ==
    LET now == ~g.inItalic
    IN  Composed([g EXCEPT !.inItalic = now], IF now THEN <<"<em>">> ELSE <<"</em>">>)

\* an Italic.compose that toggles as composeHtml does
Italic_compose_toggling(g) == Italic_composeHtml(g)

Italic_compose(g) == Composed(g, <<"*">>)

Underline_composeHtml(g) ==
    LET now == ~g.inUnderline
    IN  Composed([g EXCEPT !.inUnderline = now], IF now THEN <<"<u>">> ELSE <<"</u>">>)

\* Markdown has no underline: compose hands over to composeHtml
Underline_compose(g) == Underline_composeHtml(g)

CodeBlockStart_compose(g) == Composed([g EXCEPT !.inCodeBlock = TRUE], <<Fence>>)

CodeBlockStart_composeHtml(g) ==
    Composed([g EXCEPT !.inCodeBlock = TRUE], <<"<span class=\"codespan\">">>)

CodeBlockEnd_compose(g) == Composed([g EXCEPT !.inCodeBlock = FALSE], <<Fence, "\n">>)

CodeBlockEnd_composeHtml(g) == Composed([g EXCEPT !.inCodeBlock = FALSE], <<"<\\span>">>)

\* an assignment that keeps the value a key already has
SetYaml_keepFirst(yaml, key, value) ==
    IF \E kv \in yaml : kv[1] = key THEN yaml ELSE yaml \cup {<<key, value>>}

\* pageYaml[key] = value
SetYaml(yaml, key, value) ==
    {kv \in yaml : kv[1] # key} \cup {<<key, value>>}

\* a TOCMacro.compose that starts the front matter afresh
TOCMacro_compose_afresh(g) ==
    Composed([g EXCEPT !.pageYaml = {<<"autotoc", <<"true">>>>}], <<>>)

TOCMacro_compose(g) ==
    Composed([g EXCEPT !.pageYaml = SetYaml(g.pageYaml, "autotoc", <<"true">>)], <<>>)

RedirectPI_compose(g) == Raised(g)

RefreshPI_compose(g) == Raised(g)

\* FormatPI.compose for #format text/creole
FormatPI_compose(g) == Raised(g)

RECURSIVE composeListItems(_, _)
composeListItems(st, items) ==
    IF items = <<>> THEN st
    ELSE composeListItems(MoinList_composeItem(st, Head(items)), Tail(items))

MoinList_compose(g, items) ==
    LET st == composeListItems(
                  [inCodeBlock |-> g.inCodeBlock, indentLevel |-> g.indentLevel,
                   indentBase |-> g.indentBase, depths |-> <<items[1].depth>>,
                   out |-> <<>>], items)
    IN  Composed([g EXCEPT !.inCodeBlock = st.inCodeBlock,
                           !.indentLevel = st.indentLevel,
                           !.indentBase = st.indentBase],
                 st.out \o <<"\n">>)

\* compose(element), or element.composeHtml() where the element sits in HTML
composeElement(g, e) ==
    CASE e.kind = "Bold" -> IF e.html THEN Bold_composeHtml(g) ELSE Bold_compose(g)
      [] e.kind = "Italic" -> IF e.html THEN Italic_composeHtml(g) ELSE Italic_compose(g)
      [] e.kind = "Underline" ->
            IF e.html THEN Underline_composeHtml(g) ELSE Underline_compose(g)
      [] e.kind = "CodeBlockStart" ->
            IF e.html THEN CodeBlockStart_composeHtml(g) ELSE CodeBlockStart_compose(g)
      [] e.kind = "CodeBlockEnd" ->
            IF e.html THEN CodeBlockEnd_composeHtml(g) ELSE CodeBlockEnd_compose(g)
      [] e.kind = "TOCMacro" -> TOCMacro_compose(g)
      [] e.kind = "RedirectPI" -> RedirectPI_compose(g)
      [] e.kind = "RefreshPI" -> RefreshPI_compose(g)
      [] e.kind = "FormatPI" -> FormatPI_compose(g)
      [] e.kind = "MoinList" -> MoinList_compose(g, ListOpenCode)

\* a resetState that leaves Bold.reset out
resetState_noBold(g) ==
    [g EXCEPT !.inUnderline = FALSE, !.inItalic = FALSE,
              !.inCodeBlock = FALSE, !.indentLevel = 0, !.indentBase = 0]

\* resetState: Underline.reset, Bold.reset, Italic.reset, CodeBlockStart.reset,
\* MoinList.reset
resetState(g) ==
    [g EXCEPT !.inUnderline = FALSE, !.inBold = FALSE, !.inItalic = FALSE,
              !.inCodeBlock = FALSE, !.indentLevel = 0, !.indentBase = 0]

\* sorted(pageYaml.keys()) over the keys the translator sets
YamlKeysSorted == <<"autotoc", "title">>

RECURSIVE yamlLines(_, _)
yamlLines(yaml, keys) ==
    IF keys = <<>> THEN <<>>
    ELSE (IF \E kv \in yaml : kv[1] = Head(keys)
          THEN <<Head(keys), ": ">> \o (CHOOSE kv \in yaml : kv[1] = Head(keys))[2]
               \o <<"\n">>
          ELSE <<>>)
         \o yamlLines(yaml, Tail(keys))

\* what translate writes to the destination file
fileText(yaml, markdownText) ==
    (IF Cardinality(yaml) > 0
     THEN <<"---", "\n">> \o yamlLines(yaml, YamlKeysSorted) \o <<"---", "\n">>
     ELSE <<>>)
    \o markdownText

(***************************************************************************)
(* SpecTranslate: translate is called for one document after the other in  *)
(* the same process.                                                       *)
(***************************************************************************)
TranslateInit ==
    /\ TableIdle /\ ListIdle /\ LinkIdle
    /\ FlagsInitial /\ ListStateInitial /\ TranslateIdle

\* the root handed to translate: the one the process was started with
TranslateRoots == {DefaultRoot}

\* wikiRoot = root; wikiRootParts = wikiRoot.split("/"); wikiRootParts.pop(0)
SetWikiRoot(root) ==
    /\ wikiRoot' = root
    /\ wikiRootParts' = rootParts(root)

notTrVars == <<tblVars, listVars, emitted, interWikiMap>>

SetGlobals(g) ==
    /\ inBold' = g.inBold /\ inItalic' = g.inItalic /\ inUnderline' = g.inUnderline
    /\ inCodeBlock' = g.inCodeBlock /\ indentLevel' = g.indentLevel
    /\ indentBase' = g.indentBase /\ pageYaml' = g.pageYaml

\* the source files: a Moin page that parses or does not, a page whose text
\* starts with #format text/creole, and a page where comment lines come before
\* that instruction and the rest parses or does not
Sources == {"wiki", "unparsable", "creole", "commentsThenCreole",
            "commentsThenCreoleUnparsable"}

\* moinText[0:19] == "#format text/creole"
startsWithCreole(src) == src = "creole"

\* parse(moinText, Document) raises
parseFails(src) == src \in {"unparsable", "commentsThenCreoleUnparsable"}

\* translate, from its call to the return of parse: resetState, the creole
\* test, pageYaml = {}, parse
TranslateBegin ==
    /\ tpc \in {"idle", "done", "failed"}
    /\ translations < MaxDocs
    /\ \E src \in Sources, root \in TranslateRoots :
        /\ SetWikiRoot(root)
        /\ source' = src
        /\ pageDepth' = DefaultDepth
        /\ UNCHANGED <<srcText, moinText, accepted, written>>
        /\ translations' = translations + 1
        /\ entry' = Globals
        /\ destFile' = "unopened"
        /\ out' = <<>> /\ composed' = 0 /\ doc' = <<>>
        /\ IF startsWithCreole(src)
           THEN /\ SetGlobals(resetState(Globals))
                /\ parsed' = FALSE
                /\ tpc' = "failed"
           ELSE /\ SetGlobals([resetState(Globals) EXCEPT !.pageYaml = {}])
                /\ parsed' = TRUE
                /\ tpc' = (IF parseFails(src) THEN "failed" ELSE "composing")
        /\ UNCHANGED notTrVars

\* the parsed document starts with the instruction #format text/creole, which
\* compose has not reached yet
CreolePIAhead == source = "commentsThenCreole" /\ composed = 0

\* compose(parsedMoin) reaches the FormatPI of a document whose comment lines
\* kept the creole test from seeing it
ComposeFormatPI ==
    /\ tpc = "composing" /\ CreolePIAhead
    /\ LET r == FormatPI_compose(Globals)
       IN  /\ SetGlobals(r.g)
           /\ out' = out \o r.text
           /\ tpc' = (IF r.raised THEN "failed" ELSE "composing")
    /\ doc' = Append(doc, [kind |-> "FormatPI", html |-> FALSE])
    /\ composed' = composed + 1
    /\ UNCHANGED <<destFile, translations, entry, source, parsed, srcText, moinText, accepted,
                   pageDepth, written,
                   wikiRoot, wikiRootParts, notTrVars>>

\* compose(parsedMoin), one element of the document at a time; doc records
\* the elements as the walk meets them
ComposeElement ==
    \E e \in DocElements :
        /\ tpc = "composing" /\ composed < MaxDocLen /\ ~CreolePIAhead
        /\ LET r == composeElement(Globals, e)
           IN  /\ SetGlobals(r.g)
               /\ out' = out \o r.text
               /\ tpc' = (IF r.raised THEN "failed" ELSE "composing")
        /\ doc' = Append(doc, e)
        /\ composed' = composed + 1
        /\ UNCHANGED <<destFile, translations, entry, source, parsed, srcText, moinText, accepted,
                   pageDepth, written,
                       wikiRoot, wikiRootParts, notTrVars>>

\* translate, after compose: open the destination, write, close
TranslateWrite ==
    /\ tpc = "composing" /\ ~CreolePIAhead
    /\ destFile' = fileText(pageYaml, out)
    /\ tpc' = "done"
    /\ UNCHANGED <<inBold, inItalic, inUnderline, inCodeBlock, indentLevel, indentBase,
                   pageYaml, doc, composed, out, translations, entry, source, parsed, srcText, moinText, accepted,
                   pageDepth, written,
                   wikiRoot, wikiRootParts, notTrVars>>

TranslateNext == TranslateBegin \/ ComposeFormatPI \/ ComposeElement \/ TranslateWrite

SpecTranslate == TranslateInit /\ [][TranslateNext]_vars

(***************************************************************************)
(* Claims about the toggles and about successive translations              *)
(***************************************************************************)
OpenTag(kind) ==
    CASE kind = "Bold" -> "<strong>" [] kind = "Italic" -> "<em>" [] kind = "Underline" -> "<u>"

CloseTag(kind) ==
    CASE kind = "Bold" -> "</strong>" [] kind = "Italic" -> "</em>"
      [] kind = "Underline" -> "</u>"

FlagOf(kind) ==
    CASE kind = "Bold" -> inBold [] kind = "Italic" -> inItalic
      [] kind = "Underline" -> inUnderline

\* the tags of one kind in a text, in the order emitted
TagsOf(text, kind) ==
    LET IsTag(piece) == piece \in {OpenTag(kind), CloseTag(kind)}
    IN  SelectSeq(text, IsTag)

\* how many tokens of one kind the walk has composed
TokensOf(kind) == Cardinality({i \in 1..Len(doc) : doc[i].kind = kind})

\* every bold, italic or underline token met so far was composed in raw mode
RawOnly == \A i \in 1..Len(doc) : doc[i].kind \in ToggleKinds => doc[i].html

\* C4: when the bold, italic and underline tokens of a document are composed
\* in raw (HTML) mode from closed flags, the tags of each kind come out as
\* opening, closing, opening, ... one per token; the flag of a kind is set
\* exactly after an odd number of its tokens, so after an even number the
\* opening tags equal the closing tags in number and the flag is back to False.
C4_RawTogglesAlternate ==
    (tpc # "idle" /\ RawOnly) =>
        \A kind \in ToggleKinds :
            LET tags == TagsOf(out, kind)
                opens == Cardinality({i \in 1..Len(tags) : tags[i] = OpenTag(kind)})
                closes == Cardinality({i \in 1..Len(tags) : tags[i] = CloseTag(kind)})
            IN  /\ Len(tags) = TokensOf(kind)
                /\ \A i \in 1..Len(tags) :
                       tags[i] = (IF i % 2 = 1 THEN OpenTag(kind) ELSE CloseTag(kind))
                /\ FlagOf(kind) = (TokensOf(kind) % 2 = 1)
                /\ (TokensOf(kind) % 2 = 0) => (opens = closes /\ ~FlagOf(kind))

C4_Witness ==
    /\ tpc = "done"
    /\ doc = <<[kind |-> "Bold", html |-> TRUE], [kind |-> "Italic", html |-> TRUE],
               [kind |-> "Bold", html |-> TRUE]>>
    /\ out = <<"<strong>", "<em>", "</strong>">>
    /\ ~inBold /\ inItalic

\* the walk over a whole document from a given module state; it stops at
\* the element that raises
RECURSIVE composeAll(_, _, _)
composeAll(g, text, elems) ==
    IF elems = <<>> THEN Composed(g, text)
    ELSE LET r == composeElement(g, Head(elems))
         IN  IF r.raised THEN Raised(r.g)
             ELSE composeAll(r.g, text \o r.text, Tail(elems))

\* translating the elements met so far in a fresh process
Alone == composeAll(InitialGlobals, <<>>, doc)

\* C5: whatever an earlier translation in the same process left behind, and
\* whether it succeeded or failed, a translation starts its parse with all
\* toggle flags False, indent level and indent base 0 and an empty front-matter
\* map, and what it composes and writes is what the same document gives when
\* translated alone.
C5_TranslationsAreIndependent ==
    LET alone == Alone
    IN  /\ (tpc = "composing" /\ composed = 0) => Globals = InitialGlobals
        /\ tpc \in {"composing", "done"} =>
              /\ ~alone.raised
              /\ out = alone.text
              /\ Globals = alone.g
        /\ tpc = "done" => destFile = fileText(alone.g.pageYaml, alone.text)
        /\ (tpc = "failed" /\ Len(doc) > 0) => (alone.raised /\ destFile = "unopened")

C5_Witness ==
    /\ translations = 2 /\ tpc = "done"
    /\ entry.inBold /\ entry.inCodeBlock /\ entry.indentLevel > 0
    /\ entry.indentBase > 0 /\ entry.pageYaml # {}
    /\ doc = <<[kind |-> "Bold", html |-> TRUE], [kind |-> "MoinList", html |-> FALSE]>>
    /\ destFile = Alone.text

(***************************************************************************)
(* The link and path resolver.                                             *)
(***************************************************************************)
Up == <<".", ".", "/">>

\* the wiki roots a process is started with
Roots == {DefaultRoot, <<"/", "src", "/", "wiki">>, <<"/", "a", "/", "b", "/", "c">>}

PathPieces == {Up, <<"/">>, <<"GetGalaxy">>, <<".">>}

\* the page parts the grammar of InternalPagePath accepts, up to MaxPieces pieces
PageParts == {Concat(ps) : ps \in UNION {[1..n -> PathPieces] : n \in 1..MaxPieces}}

\* pieces of all word characters, and the others, which are one character each
WordPieces == {"This", "this", "is", "a", "23", "Link", "link", "to", "_"}

AnchorPieces == {"This", " ", "-", ",", "_"}

\* [[/GetGalaxy#This is a 23 Link-to|Install own Galaxy]]
ExampleAnchor == <<"This", " ", "is", " ", "a", " ", "23", " ", "Link", "-", "to">>

ExamplePage == <<"/", "GetGalaxy">>

ExampleText == "Install own Galaxy"

Anchors == UNION {[1..n -> AnchorPieces] : n \in 1..MaxAnchorLen} \cup {ExampleAnchor}

\* the internal links parsed: a page part with or without the example anchor,
\* or any anchor on the example page or on no page; <<>> and "" stand for
\* an attribute the parse did not set
Links ==
    {[pagePart |-> pp, anchorPart |-> a, linkText |-> t] :
        pp \in PageParts, a \in {<<>>, ExampleAnchor}, t \in {"", ExampleText}}
    \cup {[pagePart |-> pp, anchorPart |-> a, linkText |-> t] :
             pp \in {<<>>, ExamplePage}, a \in Anchors, t \in {"", ExampleText}}

\* page parts the grammar of WikiWord accepts
WikiWords == {<<"GetGalaxy">>, ExamplePage, <<"GetGalaxy", "/", "GetGalaxy">>}

\* image paths: a path and an image extension
ImagePaths == {pp \o <<".", "png">> : pp \in PageParts}

\* str.lower() on the pieces in use
lower(piece) ==
    CASE piece = "This" -> "this" [] piece = "Link" -> "link"
      [] piece \in {"GMOD", "Gmod"} -> "gmod" [] piece = "WikiPedia" -> "wikipedia"
      [] piece = "MailTo" -> "mailto" [] piece = "Bogus" -> "bogus"
      [] OTHER -> piece

isSubPageLink(pagePart) == pagePart # <<>> /\ pagePart[1] = "/"

isPageRelativeLink(pagePart) == Len(pagePart) >= 3 /\ SubSeq(pagePart, 1, 3) = Up

isRootRelativeLink(pagePart) ==
    pagePart # <<>> /\ ~isSubPageLink(pagePart) /\ ~isPageRelativeLink(pagePart)

hasDirectoryInPath(path) == \E i \in 1..Len(path) : path[i] = "/"

\* the root for a path with ../: peelBack is one less than the count says
\* a peeling back that goes further up the deeper the page is
peeledBackRoot_byDepth(root, parts, path) ==
    LET peelBack == (count(path, Up) * (-1)) + 1 - pageDepth'
    IN  IF peelBack # 0 THEN <<"/">> \o join("/", slice0(parts, peelBack)) ELSE root

peeledBackRoot(root, parts, path) ==
    LET peelBack == (count(path, Up) * (-1)) + 1
    IN  IF peelBack # 0 THEN <<"/">> \o join("/", slice0(parts, peelBack)) ELSE root

InternalPagePath_getWikiRootPath_wholeRoot(root, parts, pagePart) ==
    IF pagePart = <<>> THEN root
    ELSE IF isSubPageLink(pagePart) THEN root \o pagePart
    ELSE IF isPageRelativeLink(pagePart)
         THEN peeledBackRoot(root, parts, pagePart) \o <<"/">> \o replace(pagePart, Up, <<>>)
    ELSE root \o <<"/">> \o pagePart

InternalPagePath_getWikiRootPath(root, parts, pagePart) ==
    IF pagePart = <<>> THEN root
    ELSE IF isSubPageLink(pagePart) THEN root \o pagePart
    ELSE IF isPageRelativeLink(pagePart)
         THEN peeledBackRoot(root, parts, pagePart) \o <<"/">> \o replace(pagePart, Up, <<>>)
    ELSE <<"/">> \o parts[1] \o <<"/">> \o pagePart

InternalImagePath_getWikiRootPath(root, parts, imagePath) ==
    IF ~hasDirectoryInPath(imagePath) THEN root \o <<"/">> \o imagePath
    ELSE IF isSubPageLink(imagePath) THEN root \o imagePath
    ELSE IF isPageRelativeLink(imagePath)
         THEN peeledBackRoot(root, parts, imagePath) \o <<"/">> \o replace(imagePath, Up, <<>>)
    ELSE <<"/">> \o parts[1] \o <<"/">> \o imagePath

\* an InternalPagePath.compose that leaves the case of the anchor alone
InternalPagePath_compose_keepCase(root, parts, path) ==
    LET Kept(piece) == piece \in WordPieces \cup {" ", "-"}
        stripped == SelectSeq(path.anchorPart, Kept)
        anchor == [i \in 1..Len(stripped) |->
                      IF stripped[i] = " " THEN "-" ELSE stripped[i]]
    IN  InternalPagePath_getWikiRootPath(root, parts, path.pagePart) \o <<"/index.md">>
        \o (IF path.anchorPart # <<>> THEN <<"#">> \o anchor ELSE <<>>)

InternalPagePath_compose(root, parts, path) ==
    LET Kept(piece) == piece \in WordPieces \cup {" ", "-"}
        lowered == [i \in 1..Len(path.anchorPart) |-> lower(path.anchorPart[i])]
        stripped == SelectSeq(lowered, Kept)
        anchor == [i \in 1..Len(stripped) |->
                      IF stripped[i] = " " THEN "-" ELSE stripped[i]]
    IN  InternalPagePath_getWikiRootPath(root, parts, path.pagePart) \o <<"/index.md">>
        \o (IF path.anchorPart # <<>> THEN <<"#">> \o anchor ELSE <<>>)

\* what a compose of the resolver returns: the text, or that it raised
Text(text) == [text |-> text, raised |-> FALSE, error |-> ""]

AttributeError == [text |-> <<>>, raised |-> TRUE, error |-> "AttributeError"]

KeyError == [text |-> <<>>, raised |-> TRUE, error |-> "KeyError"]

InternalLink_compose(root, parts, link) ==
    IF link.linkText # ""
    THEN Text(<<"[", link.linkText, "](">> \o InternalPagePath_compose(root, parts, link)
              \o <<")">>)
    ELSE IF link.pagePart = <<>> THEN AttributeError
    ELSE Text(<<"[">> \o link.pagePart \o <<"](">>
              \o InternalPagePath_compose(root, parts, link) \o <<")">>)

InternalLink_composeHtml(root, parts, link) ==
    IF link.linkText # ""
    THEN Text(<<"<a href='">> \o InternalPagePath_compose(root, parts, link)
              \o <<"'>", link.linkText, "</a>">>)
    ELSE IF link.pagePart = <<>> THEN AttributeError
    ELSE Text(<<"<a href='">> \o link.pagePart \o <<"'>">>
              \o InternalPagePath_compose(root, parts, link) \o <<"</a>">>)

WikiWord_compose(root, parts, inCode, pagePart) ==
    IF inCode THEN Text(pagePart)
    ELSE Text(<<"[">> \o pagePart \o <<"](">>
              \o InternalPagePath_getWikiRootPath(root, parts, pagePart)
              \o <<"/index.md", ")">>)

WikiWord_composeHtml(root, parts, pagePart) ==
    Text(<<"<a href=\"">> \o InternalPagePath_getWikiRootPath(root, parts, pagePart)
         \o <<"/index.md", "\">">> \o pagePart \o <<"</a>">>)

\* the image shown for a link: {{attachment:GetGalaxy.png|Set|width="200"}}
DisplayImagePath == <<"GetGalaxy", ".", "png">>

InternalImage_composeHtml(root, parts, imagePath) ==
    <<"<img src=\"">> \o InternalImagePath_getWikiRootPath(root, parts, imagePath)
    \o <<"\"", " alt=\"", "Set", "\"", " ", "width=\"200\"", " />">>

\* the attachment links parsed: attachedItem is an InternalImagePath where the
\* path ends in an image extension, an InternalPagePath otherwise; linkDisplay
\* is not set, a text or an image
AttachmentLinks ==
    {[attached |-> "document", path |-> pp, display |-> d] :
        pp \in PageParts, d \in {"none", "text", "image"}}
    \cup {[attached |-> "image", path |-> ip, display |-> d] :
             ip \in ImagePaths, d \in {"none", "text", "image"}}

\* self.attachedItem.getWikiRootPath()
attachedItem_getWikiRootPath(root, parts, att) ==
    IF att.attached = "document"
    THEN InternalPagePath_getWikiRootPath(root, parts, att.path)
    ELSE InternalImagePath_getWikiRootPath(root, parts, att.path)

\* an AttachmentLink.composeHtml that links a document without the prefix
AttachmentLink_composeHtml_noPrefix(root, parts, att) ==
    LET link == attachedItem_getWikiRootPath(root, parts, att)
    IN  <<"<a href='">> \o link \o <<"'>">>
        \o (CASE att.display = "none" -> link
              [] att.display = "text" -> <<ExampleText>>
              [] att.display = "image" ->
                    InternalImage_composeHtml(root, parts, DisplayImagePath))
        \o <<"</a>">>

AttachmentLink_composeHtml(root, parts, att) ==
    LET linkText == attachedItem_getWikiRootPath(root, parts, att)
        link == IF att.attached = "document"
                THEN <<"PLACEHOLDER_ATTACHMENT_URL">> \o linkText ELSE linkText
    IN  <<"<a href='">> \o link \o <<"'>">>
        \o (CASE att.display = "none" -> linkText
              [] att.display = "text" -> <<ExampleText>>
              [] att.display = "image" ->
                    InternalImage_composeHtml(root, parts, DisplayImagePath))
        \o <<"</a>">>

AttachmentLink_compose(root, parts, att) ==
    IF att.display = "image" THEN AttachmentLink_composeHtml(root, parts, att)
    ELSE LET link == IF att.attached = "document"
                     THEN <<"PLACEHOLDER_ATTACHMENT_URL">>
                          \o attachedItem_getWikiRootPath(root, parts, att)
                     ELSE attachedItem_getWikiRootPath(root, parts, att)
             linkText == IF att.display = "text" THEN <<ExampleText>> ELSE link
         IN  <<"[">> \o linkText \o <<"](">> \o link \o <<")">>

\* the interwiki links parsed; "" stands for wikiPage or linkText not set
InterWikiNames ==
    {"gmod", "GMOD", "Gmod", "src", "bbissue", "wikipedia", "WikiPedia",
     "mailto", "MailTo", "gmodx", "Bogus", "trac"}

InterWikiLinks ==
    [interWikiName : InterWikiNames, wikiPage : {"", "GBrowse"},
     linkText : {"", ExampleText}]

\* createMailToMacro and MailToMacro.compose
InterWikiLink_mailto_compose(link) ==
    IF link.wikiPage = "" THEN AttributeError
    ELSE Text(<<"(", (IF link.linkText # "" THEN link.linkText ELSE link.wikiPage), ")",
                "[mailto:", link.wikiPage, "]">>)

\* createMailToMacro and MailToMacro.composeHtml
InterWikiLink_mailto_composeHtml(link) ==
    IF link.wikiPage = "" THEN AttributeError
    ELSE Text(<<"<a href=\"mailto:", link.wikiPage, "\">",
                (IF link.linkText # "" THEN link.linkText ELSE link.wikiPage), "</a>">>)

\* interWikiMap[name.lower()].url, then the wiki page
InterWikiLink_url(map, link) ==
    <<map[lower(link.interWikiName)]>>
    \o (IF link.wikiPage # "" THEN <<link.wikiPage>> ELSE <<>>)

\* an InterWikiLink.compose that links to the name itself where the map has no
\* entry for it
InterWikiLink_compose_lenient(map, link) ==
    IF lower(link.interWikiName) = "mailto" THEN InterWikiLink_mailto_compose(link)
    ELSE LET url == IF lower(link.interWikiName) \in DOMAIN map
                    THEN InterWikiLink_url(map, link) ELSE <<link.interWikiName>>
         IN  Text(<<"[">> \o (IF link.linkText # "" THEN <<link.linkText>> ELSE url)
                  \o <<"](">> \o url \o <<")">>)

InterWikiLink_compose(map, link) ==
    IF lower(link.interWikiName) = "mailto" THEN InterWikiLink_mailto_compose(link)
    ELSE IF lower(link.interWikiName) \notin DOMAIN map THEN KeyError
    ELSE LET url == InterWikiLink_url(map, link)
         IN  Text(<<"[">> \o (IF link.linkText # "" THEN <<link.linkText>> ELSE url)
                  \o <<"](">> \o url \o <<")">>)

InterWikiLink_composeHtml(map, link) ==
    IF lower(link.interWikiName) = "mailto" THEN InterWikiLink_mailto_composeHtml(link)
    ELSE IF lower(link.interWikiName) \notin DOMAIN map THEN KeyError
    ELSE LET url == InterWikiLink_url(map, link)
         IN  Text(<<"<a href='">> \o url \o <<"'>">>
                  \o (IF link.linkText # "" THEN <<link.linkText>> ELSE url)
                  \o <<"</a>">>)

(***************************************************************************)
(* SpecLink: a translation sets the wiki root, and the walk over the       *)
(* document composes one link, WikiWord or image path after the other.     *)
(***************************************************************************)
LinkInit ==
    /\ TableIdle /\ ListIdle /\ TranslateIdle
    /\ FlagsInitial /\ ListStateInitial /\ LinkIdle

notLinkVars == <<tblVars, inBold, inItalic, inUnderline, indentLevel, indentBase,
                 listVars, trVars>>

\* translate, up to the parse, for a process started with any of the roots
LinkTranslate ==
    /\ emitted.kind = "none"
    /\ \E root \in Roots :
        /\ SetWikiRoot(root)
        /\ inCodeBlock' = FALSE
        /\ UNCHANGED <<emitted, interWikiMap, notLinkVars>>

Emit(kind, html, link, rootPath, r) ==
    emitted' = [kind |-> kind, html |-> html, pagePart |-> link.pagePart,
                anchorPart |-> link.anchorPart, linkText |-> link.linkText,
                rootPath |-> rootPath, text |-> r.text, raised |-> r.raised,
                attached |-> "none", display |-> "none",
                interWikiName |-> "", error |-> r.error]

ComposeInternalLink ==
    /\ emitted.kind = "none"
    /\ \E link \in Links, html \in BOOLEAN :
        /\ Emit("InternalLink", html, link,
                InternalPagePath_getWikiRootPath(wikiRoot, wikiRootParts, link.pagePart),
                IF html THEN InternalLink_composeHtml(wikiRoot, wikiRootParts, link)
                ELSE InternalLink_compose(wikiRoot, wikiRootParts, link))
        /\ UNCHANGED <<wikiRoot, wikiRootParts, inCodeBlock, interWikiMap, notLinkVars>>

ComposeWikiWord ==
    /\ emitted.kind = "none"
    /\ \E pagePart \in WikiWords, html \in BOOLEAN :
        /\ Emit("WikiWord", html,
                [pagePart |-> pagePart, anchorPart |-> <<>>, linkText |-> ""],
                InternalPagePath_getWikiRootPath(wikiRoot, wikiRootParts, pagePart),
                IF html THEN WikiWord_composeHtml(wikiRoot, wikiRootParts, pagePart)
                ELSE WikiWord_compose(wikiRoot, wikiRootParts, inCodeBlock, pagePart))
        /\ UNCHANGED <<wikiRoot, wikiRootParts, inCodeBlock, interWikiMap, notLinkVars>>

\* InternalImagePath.compose returns getWikiRootPath()
ComposeImagePath ==
    /\ emitted.kind = "none"
    /\ \E imagePath \in ImagePaths :
        /\ LET rootPath == InternalImagePath_getWikiRootPath(wikiRoot, wikiRootParts,
                                                             imagePath)
           IN  Emit("InternalImagePath", FALSE,
                    [pagePart |-> imagePath, anchorPart |-> <<>>, linkText |-> ""],
                    rootPath, Text(rootPath))
        /\ UNCHANGED <<wikiRoot, wikiRootParts, inCodeBlock, interWikiMap, notLinkVars>>

ComposeAttachmentLink ==
    /\ emitted.kind = "none"
    /\ \E att \in AttachmentLinks, html \in BOOLEAN :
        /\ emitted' = [kind |-> "AttachmentLink", html |-> html, pagePart |-> att.path,
                       anchorPart |-> <<>>, linkText |-> "",
                       rootPath |-> attachedItem_getWikiRootPath(wikiRoot, wikiRootParts, att),
                       text |-> IF html
                                THEN AttachmentLink_composeHtml(wikiRoot, wikiRootParts, att)
                                ELSE AttachmentLink_compose(wikiRoot, wikiRootParts, att),
                       raised |-> FALSE,
                       attached |-> att.attached, display |-> att.display,
                       interWikiName |-> "", error |-> ""]
        /\ UNCHANGED <<wikiRoot, wikiRootParts, inCodeBlock, interWikiMap, notLinkVars>>

\* neither compose nor composeHtml assigns to interWikiMap or to an entry of it
ComposeInterWikiLink ==
    /\ emitted.kind = "none"
    /\ \E link \in InterWikiLinks, html \in BOOLEAN :
        LET r == IF html THEN InterWikiLink_composeHtml(interWikiMap, link)
                 ELSE InterWikiLink_compose(interWikiMap, link)
        IN  /\ emitted' = [kind |-> "InterWikiLink", html |-> html,
                           pagePart |-> IF link.wikiPage = "" THEN <<>>
                                        ELSE <<link.wikiPage>>,
                           anchorPart |-> <<>>, linkText |-> link.linkText,
                           rootPath |-> <<>>, text |-> r.text, raised |-> r.raised,
                           attached |-> "none", display |-> "none",
                           interWikiName |-> link.interWikiName, error |-> r.error]
            /\ UNCHANGED <<wikiRoot, wikiRootParts, inCodeBlock, interWikiMap, notLinkVars>>

\* compose's walk takes the text returned and goes on to the next element
WalkOn ==
    /\ emitted.kind # "none"
    /\ emitted' = NoEmit
    /\ UNCHANGED <<wikiRoot, wikiRootParts, inCodeBlock, interWikiMap, notLinkVars>>

LinkNext ==
    \/ LinkTranslate \/ ComposeInternalLink \/ ComposeWikiWord \/ ComposeImagePath
    \/ ComposeAttachmentLink \/ ComposeInterWikiLink
    \/ WalkOn \/ ElementCodeBlock

SpecLink == LinkInit /\ [][LinkNext]_vars

(***************************************************************************)
(* SpecPage: translate over pages of processing instructions, macros that  *)
(* write front matter, text and links.                                     *)
(***************************************************************************)
\* the titles of <<div(title)>>...<<div>>, as their subelements compose
Titles == {<<"A">>, <<"A", ", ", "B">>, <<"B">>}

PageElements ==
    {[kind |-> "TOCMacro", html |-> FALSE, maxDepth |-> d] : d \in {"none", "2"}}
    \cup {[kind |-> "TitleDiv", html |-> FALSE, title |-> t] : t \in Titles}
    \cup {[kind |-> "PlainText", html |-> FALSE, text |-> <<"a">>], [kind |-> "Bold", html |-> TRUE],
          [kind |-> "RedirectPI", html |-> FALSE], [kind |-> "RefreshPI", html |-> FALSE]}
    \cup {[kind |-> "InterWikiLink", html |-> FALSE,
           link |-> [interWikiName |-> n, wikiPage |-> "GBrowse", linkText |-> ""]] :
             n \in {"gmod", "Bogus"}}

\* pageYaml["title"] = re.sub(r", ", "", compose(self.title))
TitleDiv_compose(g, title) ==
    LET NotCommaSpace(piece) == piece # ", "
    IN  Composed([g EXCEPT !.pageYaml =
                      SetYaml(g.pageYaml, "title", SelectSeq(title, NotCommaSpace))],
                 <<>>)

PlainText_compose(g, text) == Composed(g, text)

composePageElement(g, e) ==
    CASE e.kind = "TitleDiv" -> TitleDiv_compose(g, e.title)
      [] e.kind = "PlainText" -> PlainText_compose(g, e.text)
      [] e.kind = "InterWikiLink" ->
            LET r == InterWikiLink_compose(interWikiMap, e.link)
            IN  IF r.raised THEN Raised(g) ELSE Composed(g, r.text)
      [] OTHER -> composeElement(g, e)

\* compose(parsedMoin), one element of the page at a time
ComposePageElement ==
    /\ tpc = "composing" /\ composed < MaxDocLen /\ ~CreolePIAhead
    /\ \E e \in PageElements :
        /\ LET r == composePageElement(Globals, e)
           IN  /\ SetGlobals(r.g)
               /\ out' = out \o r.text
               /\ tpc' = (IF r.raised THEN "failed" ELSE "composing")
        /\ doc' = Append(doc, e)
        /\ composed' = composed + 1
        /\ UNCHANGED <<destFile, translations, entry, source, parsed, srcText, moinText, accepted,
                   pageDepth, written,
                       wikiRoot, wikiRootParts, notTrVars>>

PageNext == TranslateBegin \/ ComposeFormatPI \/ ComposePageElement \/ TranslateWrite

SpecPage == TranslateInit /\ [][PageNext]_vars

(***************************************************************************)
(* SpecInline: translate over pages of inline formatting tokens, composed  *)
(* as Markdown or, with html = TRUE, as HTML.                              *)
(***************************************************************************)
FontSizeKinds == {"FontSizeChangeStart", "FontSizeChangeEnd"}

\* the sign of ~+ and ~-, of +~ and -~
Directions == {"+", "-"}

InlineElements ==
    {[kind |-> k, html |-> h] : k \in ToggleKinds, h \in BOOLEAN}
    \cup {[kind |-> k, html |-> h, direction |-> d] :
             k \in FontSizeKinds, h \in BOOLEAN, d \in Directions}

FontSizeChangeStart_compose(g, direction) ==
    LET newSize == IF direction = "+" THEN "larger" ELSE "smaller"
    IN  Composed(g, <<"<span style=\"font-size: " \o newSize \o ";\">">>)

\* composeHtml returns compose(self)
FontSizeChangeStart_composeHtml(g, direction) == FontSizeChangeStart_compose(g, direction)

FontSizeChangeEnd_compose(g) == Composed(g, <<"</span>">>)

FontSizeChangeEnd_composeHtml(g) == FontSizeChangeEnd_compose(g)

composeInlineElement(g, e) ==
    CASE e.kind = "FontSizeChangeStart" ->
            IF e.html THEN FontSizeChangeStart_composeHtml(g, e.direction)
            ELSE FontSizeChangeStart_compose(g, e.direction)
      [] e.kind = "FontSizeChangeEnd" ->
            IF e.html THEN FontSizeChangeEnd_composeHtml(g) ELSE FontSizeChangeEnd_compose(g)
      [] OTHER -> composeElement(g, e)

\* compose(parsedMoin), one inline token at a time
ComposeInlineElement ==
    /\ tpc = "composing" /\ composed < MaxDocLen /\ ~CreolePIAhead
    /\ \E e \in InlineElements :
        /\ LET r == composeInlineElement(Globals, e)
           IN  /\ SetGlobals(r.g)
               /\ out' = out \o r.text
               /\ tpc' = (IF r.raised THEN "failed" ELSE "composing")
        /\ doc' = Append(doc, e)
        /\ composed' = composed + 1
        /\ UNCHANGED <<destFile, translations, entry, source, parsed, srcText, moinText, accepted,
                   pageDepth, written,
                       wikiRoot, wikiRootParts, notTrVars>>

InlineNext == TranslateBegin \/ ComposeFormatPI \/ ComposeInlineElement \/ TranslateWrite

SpecInline == TranslateInit /\ [][InlineNext]_vars

(***************************************************************************)
(* SpecRegion: translate over pages of region macros, <<div(class)>>,      *)
(* <<div>>, <<span(class)>> and <<span>>, composed as Markdown or, with    *)
(* html = TRUE, as HTML.                                                   *)
(***************************************************************************)
RegionClasses == {"blue", "center"}

RegionMacros ==
    {[kind |-> k, html |-> h, class |-> c] :
        k \in {"DivMacro", "SpanMacro"}, h \in BOOLEAN, c \in RegionClasses}
    \cup {[kind |-> k, html |-> h] : k \in {"DivEndMacro", "SpanEndMacro"}, h \in BOOLEAN}

DivMacro_compose(g, divClass) == Composed(g, <<"<div class='", divClass, "'>">>)

DivEndMacro_compose(g) == Composed(g, <<"</div>">>)

SpanMacro_compose(g, spanClass) == Composed(g, <<"<div class='", spanClass, "'>">>)

SpanEndMacro_compose(g) == Composed(g, <<"</span>">>)

\* compose(self.macro)
Macro_compose(g, e) ==
    CASE e.kind = "DivMacro" -> DivMacro_compose(g, e.class)
      [] e.kind = "DivEndMacro" -> DivEndMacro_compose(g)
      [] e.kind = "SpanMacro" -> SpanMacro_compose(g, e.class)
      [] e.kind = "SpanEndMacro" -> SpanEndMacro_compose(g)

\* a macro that is no MailToMacro has the markup of compose
Macro_composeHtml(g, e) == Macro_compose(g, e)

\* compose(parsedMoin), one region macro at a time
ComposeRegionMacro ==
    /\ tpc = "composing" /\ composed < MaxDocLen /\ ~CreolePIAhead
    /\ \E e \in RegionMacros :
        /\ LET r == IF e.html THEN Macro_composeHtml(Globals, e) ELSE Macro_compose(Globals, e)
           IN  /\ SetGlobals(r.g)
               /\ out' = out \o r.text
               /\ tpc' = (IF r.raised THEN "failed" ELSE "composing")
        /\ doc' = Append(doc, e)
        /\ composed' = composed + 1
        /\ UNCHANGED <<destFile, translations, entry, source, parsed, srcText, moinText, accepted,
                   pageDepth, written,
                       wikiRoot, wikiRootParts, notTrVars>>

RegionNext == TranslateBegin \/ ComposeFormatPI \/ ComposeRegionMacro \/ TranslateWrite

SpecRegion == TranslateInit /\ [][RegionNext]_vars

(***************************************************************************)
(* SpecText: translate over source texts of words, spaces and newlines,    *)
(* character by character: the indent pre-pass, parse as a Document,       *)
(* compose, write.  A marker of the pre-pass is the pieces "@INDENT-", the *)
(* decimal digits of the depth and "@".                                    *)
(***************************************************************************)
\* a word character, a space and a newline
Chars == {"a", " ", "\n"}

Texts == UNION {[1..n -> Chars] : n \in 0..MaxTextLen}

\* \s of the regular expressions, over Chars
Whitespace == {" ", "\n"}

Digits == <<"0", "1", "2", "3", "4", "5", "6", "7", "8", "9">>

\* str(n) of a natural number: its decimal digits
RECURSIVE strInt(_)
strInt(n) ==
    IF n < 10 THEN <<Digits[n + 1]>> ELSE strInt(n \div 10) \o <<Digits[(n % 10) + 1]>>

\* int(digits)
RECURSIVE intStr(_)
intStr(digits) ==
    IF digits = <<>> THEN 0
    ELSE 10 * intStr(SubSeq(digits, 1, Len(digits) - 1))
         + (CHOOSE d \in 0..9 : Digits[d + 1] = digits[Len(digits)])

\* how many pieces of text from position i on are in the set, up to the first
\* that is not: the length of the match of [set]*
RECURSIVE run(_, _, _)
run(text, i, set) ==
    IF i > Len(text) \/ text[i] \notin set THEN 0 ELSE 1 + run(text, i + 1, set)

\* "@INDENT-" + str(indent) + "@"
insertIndentFlag(indent) == <<"@INDENT-">> \o strInt(indent) \o <<"@">>

\* re.sub(r"^(?P<leading> +)(?=\S)", insertIndentFlag, ..., flags=re.MULTILINE)
\* from position i on; atStart: position i starts a line
RECURSIVE identifyIndentsFrom(_, _, _)
identifyIndentsFrom(text, i, atStart) ==
    IF i > Len(text) THEN <<>>
    ELSE IF atStart /\ text[i] = " "
         THEN LET n == run(text, i, {" "})
                  followed == i + n <= Len(text) /\ text[i + n] \notin Whitespace
              IN  (IF followed THEN insertIndentFlag(n) ELSE SubSeq(text, i, i + n - 1))
                  \o identifyIndentsFrom(text, i + n, FALSE)
         ELSE <<text[i]>> \o identifyIndentsFrom(text, i + 1, text[i] = "\n")

identifyIndents(text) == identifyIndentsFrom(text, 1, TRUE)

\* the parser skips white space before it starts on the grammar handed to it,
\* and nowhere inside a contiguous grammar
skipWhitespace(text) ==
    SubSeq(text, run(text, 1, Whitespace) + 1, Len(text))

\* PlainText.grammar, [\w \t\f\v]+, over Chars
PlainTextChars == {"a", " "}

\* \d
DigitChars == {Digits[d] : d \in 1..10}

\* some(Subelement) at the head of text: LeadingSpaces, then PlainText, are the
\* alternatives that match such text; the items parsed and the text left
RECURSIVE parseSubelements(_)
parseSubelements(text) ==
    IF text = <<>> THEN [items |-> <<>>, rest |-> text]
    ELSE IF Head(text) = "@INDENT-"
         THEN LET n == run(text, 2, DigitChars)
                  more == parseSubelements(SubSeq(text, n + 3, Len(text)))
              IN  [items |-> <<[kind |-> "LeadingSpaces", html |-> FALSE,
                                text |-> SubSeq(text, 2, n + 1)]>> \o more.items,
                   rest |-> more.rest]
         ELSE IF Head(text) \in PlainTextChars
              THEN LET n == run(text, 1, PlainTextChars)
                       more == parseSubelements(SubSeq(text, n + 1, Len(text)))
                   IN  [items |-> <<[kind |-> "PlainText", html |-> FALSE,
                                     text |-> SubSeq(text, 1, n)]>> \o more.items,
                        rest |-> more.rest]
              ELSE [items |-> <<>>, rest |-> text]

\* maybe_some(Element): Paragraph where a subelement matches, TrailingWhitespace
\* at a newline
RECURSIVE parseElements(_)
parseElements(text) ==
    IF text = <<>> THEN <<>>
    ELSE IF Head(text) = "\n"
         THEN <<[kind |-> "TrailingWhitespace", html |-> FALSE, items |-> <<>>]>>
              \o parseElements(Tail(text))
         ELSE LET p == parseSubelements(text)
              IN  <<[kind |-> "Paragraph", html |-> FALSE, items |-> p.items]>>
                  \o parseElements(p.rest)

\* parse(moinText, Document)
parseDocument(text) == parseElements(skipWhitespace(text))

\* a LeadingSpaces.compose that gives one space whatever the depth
LeadingSpaces_compose_oneSpace(g, depth) == Composed(g, <<" ">>)

\* " " * int(self.depth)
LeadingSpaces_compose(g, depth) == Composed(g, [k \in 1..intStr(depth) |-> " "])

TrailingWhitespace_compose(g) == Composed(g, <<"\n">>)

composeSubelement(g, e) ==
    IF e.kind = "LeadingSpaces" THEN LeadingSpaces_compose(g, e.text)
    ELSE PlainText_compose(g, e.text)

\* out = ""; for item in self: out += compose(item)
RECURSIVE Paragraph_compose(_, _)
Paragraph_compose(g, items) ==
    IF items = <<>> THEN Composed(g, <<>>)
    ELSE LET first == composeSubelement(g, Head(items))
             others == Paragraph_compose(first.g, Tail(items))
         IN  Composed(others.g, first.text \o others.text)

composeTextElement(g, e) ==
    IF e.kind = "Paragraph" THEN Paragraph_compose(g, e.items)
    ELSE TrailingWhitespace_compose(g)

\* translate, from its call to the return of parse, on a source text
TextBegin ==
    /\ tpc = "idle"
    /\ \E text \in Texts, root \in TranslateRoots :
        /\ SetWikiRoot(root)
        /\ srcText' = text
        /\ moinText' = identifyIndents(text)
        /\ doc' = parseDocument(identifyIndents(text))
    /\ source' = "wiki" /\ parsed' = TRUE
    /\ translations' = translations + 1
    /\ entry' = Globals
    /\ destFile' = "unopened"
    /\ out' = <<>> /\ composed' = 0
    /\ SetGlobals([resetState(Globals) EXCEPT !.pageYaml = {}])
    /\ tpc' = "composing"
    /\ pageDepth' = DefaultDepth
    /\ UNCHANGED <<accepted, written, notTrVars>>

\* compose(parsedMoin), one element of the document at a time
ComposeTextElement ==
    /\ tpc = "composing" /\ composed < Len(doc)
    /\ LET r == composeTextElement(Globals, doc[composed + 1])
       IN  /\ SetGlobals(r.g)
           /\ out' = out \o r.text
    /\ composed' = composed + 1
    /\ UNCHANGED <<tpc, doc, destFile, translations, entry, source, parsed, srcText,
                   moinText, accepted, pageDepth, written, wikiRoot, wikiRootParts,
                   notTrVars>>

\* translate, after compose has walked the document: open, write, close
TextWrite ==
    /\ composed = Len(doc)
    /\ TranslateWrite

TextNext == TextBegin \/ ComposeTextElement \/ TextWrite

SpecText == TranslateInit /\ [][TextNext]_vars

(***************************************************************************)
(* SpecWikiWord: parse(text, WikiWord) over tokens, as WikiWord.test and   *)
(* testFail call it.                                                      *)
(***************************************************************************)
\* [A-Z]
Upper == {"A", "B", "C", "D", "E", "F", "G", "H", "I", "J", "K", "L", "M", "N", "O", "P", "Q", "R", "S", "T", "U", "V", "W", "X", "Y", "Z"}

\* [a-z0-9]
LowerDigit == {"a", "b", "c", "d", "e", "f", "g", "h", "i", "j", "k", "l", "m", "n", "o", "p", "q", "r", "s", "t", "u", "v", "w", "x", "y", "z"} \cup DigitChars

\* the texts WikiWord.test expects to parse
TestParses ==
    {<<"W", "o", "r", "d", "s", "O", "f", "W", "i", "s", "d", "o", "m">>,
     <<"W", "1", "W", "2">>,
     <<"W", "i", "k", "i", "7", "W", "a">>,
     <<"W", "h", "a", "t", "A", "b", "o", "u", "t", "/", "I", "n", "P", "a", "t", "h", "s">>,
     <<"/", "W", "h", "a", "t", "A", "b", "o", "u", "t", "/", "I", "n", "P", "a", "t", "h", "s">>,
     <<"/", "W", "h", "a", "t", "A", "b", "o", "u", "t", "/", "I", "n", "P", "a", "t", "h", "s", "/", "D", "e", "e", "p", "P", "a", "t", "h">>}

\* the texts WikiWord.test expects to fail
TestFails ==
    {<<"W", "W", "W", "o", "r", "d", "s", "O", "f", "W", "i", "s", "d", "o", "m">>,
     <<"W", "_", "W", "o", "r", "d", "s">>,
     <<"W", "i", "k", "i", "W">>,
     <<"W", "i", "k", "7", "W">>,
     <<"W", "h", "a", "t", "a", "b", "o", "u", "t", "/", "I", "n", "P", "a", "t", "h", "s">>,
     <<"W", "h", "a", "t", "A", "b", "o", "u", "t", "/", "I", "n", "p", "a", "t", "h", "s">>,
     <<"W", "h", "a", "t", "A", "b", "o", "u", "t", "/", "I", "n", "P", "a", "t", "h", "s", "/">>,
     <<"/", "W", "h", "a", "t", "A", "b", "o", "u", "t", "/", "I", "n", "P", "a", "t", "h", "s", "/">>}

\* the characters of the tokens tried beside those of the tests
TokenChars == {"W", "i", "7", "/", "-"}

Tokens ==
    UNION {[1..n -> TokenChars] : n \in 0..MaxTokenLen} \cup TestParses \cup TestFails

\* [A-Z][a-z0-9]+ at position i of text: the position after the match, 0 if
\* there is none
capNext(text, i) ==
    IF i <= Len(text) /\ text[i] \in Upper /\ run(text, i + 1, LowerDigit) >= 1
    THEN i + 1 + run(text, i + 1, LowerDigit) ELSE 0

\* ([A-Z][a-z0-9]+)* at position i, greedy: the position after the match
RECURSIVE partsNext(_, _)
partsNext(text, i) ==
    LET n == capNext(text, i) IN IF n = 0 THEN i ELSE partsNext(text, n)

\* a segment pattern that is content with one capitalized part
segmentNext_onePart(text, i) ==
    LET j == IF i <= Len(text) /\ text[i] = "/" THEN i + 1 ELSE i
        first == capNext(text, j)
    IN  IF first = 0 THEN 0 ELSE partsNext(text, first)

\* /?[A-Z][a-z0-9]+([A-Z][a-z0-9]+)+ at position i: the position after the
\* match, 0 if there is none
segmentNext(text, i) ==
    LET j == IF i <= Len(text) /\ text[i] = "/" THEN i + 1 ELSE i
        first == capNext(text, j)
        second == IF first = 0 THEN 0 ELSE capNext(text, first)
    IN  IF second = 0 THEN 0 ELSE partsNext(text, second)

\* (segment)* at position i, greedy
RECURSIVE segmentsNext(_, _)
segmentsNext(text, i) ==
    LET n == segmentNext(text, i) IN IF n = 0 THEN i ELSE segmentsNext(text, n)

\* WikiWord.grammar: how many characters of text the pattern
\* (/?[A-Z][a-z0-9]+([A-Z][a-z0-9]+)+)+ matches at its start, 0 if it does not
WikiWord_grammar(text) ==
    LET first == segmentNext(text, 1)
    IN  IF first = 0 THEN 0 ELSE segmentsNext(text, first) - 1

\* parse(text, WikiWord) returns: the pattern matches and leaves no text
parse_WikiWord(text) ==
    LET t == skipWhitespace(text)
    IN  WikiWord_grammar(t) > 0 /\ WikiWord_grammar(t) = Len(t)

WikiWordInit == TranslateInit

\* parse(text, cls) of WikiWord.test, or of testFail
ParseWikiWord ==
    /\ accepted = "none"
    /\ \E text \in Tokens :
        /\ srcText' = text
        /\ accepted' = (IF parse_WikiWord(text) THEN "parsed" ELSE "raised")
    /\ UNCHANGED <<tblVars, inBold, inItalic, inUnderline, inCodeBlock, indentLevel,
                   indentBase, listVars, linkVars, pageYaml, tpc, doc, composed, out,
                   destFile, translations, entry, source, parsed, moinText,
                   pageDepth, written>>

WikiWordNext == ParseWikiWord

SpecWikiWord == WikiWordInit /\ [][WikiWordNext]_vars

(***************************************************************************)
(* SpecDepth: whole calls of translate on pages of one link or image, with *)
(* the root and the page depth of each call; written keeps what each call  *)
(* wrote.                                                                  *)
(***************************************************************************)
PageDepths == 0..MaxDepth

\* the paths of the pages: sub-page, root-relative, in a directory, one and two
\* levels up
DepthPaths ==
    {<<"/", "GetGalaxy">>, <<"GetGalaxy">>, <<"GetGalaxy", "/", "GetGalaxy">>,
     Up \o <<"GetGalaxy">>, Up \o Up \o <<"GetGalaxy">>}

\* pages of one element: [[path]] or an image
DepthPages ==
    {[kind |-> "InternalLink", path |-> pp] : pp \in DepthPaths}
    \cup {[kind |-> "InternalImagePath", path |-> pp \o <<".", "png">>] : pp \in DepthPaths}

\* compose(parsedMoin) of such a page
composeDepthPage(root, parts, page) ==
    IF page.kind = "InternalLink"
    THEN InternalLink_compose(root, parts,
             [pagePart |-> page.path, anchorPart |-> <<>>, linkText |-> ""]).text
    ELSE InternalImagePath_getWikiRootPath(root, parts, page.path)

\* translate(srcFilePath, destFilePath, root, depth), from call to return
TranslateAtDepth ==
    /\ tpc \in {"idle", "done"}
    /\ Len(written) < MaxCalls
    /\ \E root \in Roots, depth \in PageDepths, page \in DepthPages :
        /\ pageDepth' = depth
        /\ SetWikiRoot(root)
        /\ LET text == composeDepthPage(root, rootParts(root), page)
           IN  /\ out' = text
               /\ destFile' = fileText({}, text)
               /\ written' = Append(written, [root |-> root, depth |-> depth,
                                              page |-> page, text |-> fileText({}, text)])
        /\ doc' = <<page>> /\ composed' = 1
    /\ SetGlobals([resetState(Globals) EXCEPT !.pageYaml = {}])
    /\ source' = "wiki" /\ parsed' = TRUE
    /\ translations' = translations + 1
    /\ entry' = Globals
    /\ tpc' = "done"
    /\ UNCHANGED <<srcText, moinText, accepted, notTrVars>>

DepthNext == TranslateAtDepth

SpecDepth == TranslateInit /\ [][DepthNext]_vars

(***************************************************************************)
(* Claims about the link and path resolver (checked under SpecLink).       *)
(***************************************************************************)
\* the first position in a text holding one of the pieces, 0 if none does
FirstOf(text, pieces) ==
    IF \E i \in 1..Len(text) : text[i] \in pieces
    THEN CHOOSE i \in 1..Len(text) :
             text[i] \in pieces /\ \A j \in 1..(i - 1) : text[j] \notin pieces
    ELSE 0

\* the text from after the first of the opening pieces up to the next of the
\* closing pieces
Between(text, opening, closing) ==
    LET from == FirstOf(text, opening)
        rest == SubSeq(text, from + 1, Len(text))
        to == FirstOf(rest, closing)
    IN  SubSeq(rest, 1, to - 1)

\* the anchor an emitted link carries
EmittedAnchor(text) == Between(text, {"#"}, {")", "'>", "</a>"})

\* the anchor as the statement has it: what is neither word characters, space
\* nor hyphen goes, a space becomes a hyphen, the rest is lower-cased
StatedAnchor(anchorPart) ==
    LET Stays(piece) == piece \in WordPieces \/ piece = " " \/ piece = "-"
        kept == SelectSeq(anchorPart, Stays)
    IN  [i \in 1..Len(kept) |-> IF kept[i] = " " THEN "-" ELSE lower(kept[i])]

IsExampleLink ==
    /\ emitted.kind = "InternalLink" /\ ~emitted.html
    /\ wikiRoot = DefaultRoot
    /\ emitted.pagePart = ExamplePage /\ emitted.anchorPart = ExampleAnchor
    /\ emitted.linkText = ExampleText

\* [Install own Galaxy](/src/GetGalaxy/index.md#this-is-a-23-link-to)
ExampleMarkdown ==
    <<"[", "Install own Galaxy", "](", "/", "src", "/", "GetGalaxy", "/index.md", "#",
      "this", "-", "is", "-", "a", "-", "23", "-", "link", "-", "to", ")">>

\* C8: the anchor of every internal link composed comes out lower-cased, without
\* the characters that are neither word characters, spaces nor hyphens, and
\* with a hyphen for every space; with wiki root /src the link
\* [[/GetGalaxy#This is a 23 Link-to|Install own Galaxy]] becomes
\* [Install own Galaxy](/src/GetGalaxy/index.md#this-is-a-23-link-to).
C8_AnchorNormalisedAndExample ==
    /\ (emitted.kind = "InternalLink" /\ ~emitted.raised /\ emitted.anchorPart # <<>>) =>
          /\ FirstOf(emitted.text, {"#"}) > 0
          /\ EmittedAnchor(emitted.text) = StatedAnchor(emitted.anchorPart)
    /\ IsExampleLink => emitted.text = ExampleMarkdown

C8_Witness == IsExampleLink /\ emitted.text = ExampleMarkdown

\* the wiki root without its last k components
RootWithout(parts, k) ==
    IF k >= Len(parts) THEN <<>>
    ELSE <<"/">> \o join("/", SubSeq(parts, 1, Len(parts) - k))

\* C9: for a parent-relative path with k occurrences of ../ the resolver
\* returns the wiki root without its last k components, a "/", and the path
\* without its ../ occurrences.
C9_ParentPathDropsKComponents ==
    (/\ emitted.kind \in {"InternalLink", "InternalImagePath"}
     /\ ~emitted.raised
     /\ isPageRelativeLink(emitted.pagePart)) =>
        emitted.rootPath =
            RootWithout(wikiRootParts, count(emitted.pagePart, Up))
            \o <<"/">> \o replace(emitted.pagePart, Up, <<>>)

\* the link target in an emitted text
Target(text) == Between(text, {"](", "<a href='", "<a href=\""}, {")", "'>", "\">"})

IsPrefix(pre, text) == Len(pre) <= Len(text) /\ SubSeq(text, 1, Len(pre)) = pre

\* C10: in both render modes, with or without link text, the target of every
\* internal link and of every WikiWord made a link is the path resolved
\* against the wiki root, then /index.md, then the #anchor if there is one; it
\* is never the path as the source has it.
C10_TargetIsResolvedIndex ==
    (/\ emitted.kind \in {"InternalLink", "WikiWord"}
     /\ ~emitted.raised
     /\ FirstOf(emitted.text, {"](", "<a href='", "<a href=\""}) > 0) =>
        LET resolved == emitted.rootPath \o <<"/index.md">>
            target == Target(emitted.text)
        IN  /\ IsPrefix(resolved, target)
            /\ IF emitted.anchorPart = <<>> THEN target = resolved
               ELSE target[Len(resolved) + 1] = "#"
            /\ target # emitted.pagePart

Placeholder == "PLACEHOLDER_ATTACHMENT_URL"

\* C11 as stated: the target of every attachment link composed, whether a
\* document or an image is attached, with or without display text and in
\* either render mode, starts with PLACEHOLDER_ATTACHMENT_URL.
C11_EveryAttachmentTargetHasPlaceholder ==
    emitted.kind = "AttachmentLink" =>
        (Target(emitted.text) # <<>> /\ Target(emitted.text)[1] = Placeholder)

\* C11: the target of an attachment link composed, with or without display
\* text or image and in either render mode, is PLACEHOLDER_ATTACHMENT_URL
\* followed by the resolved path where a document is attached, and the
\* resolved image path alone, without the prefix, where an image is attached.
C11_DocumentAttachmentTargetHasPlaceholder ==
    emitted.kind = "AttachmentLink" =>
        /\ emitted.attached = "document" =>
              Target(emitted.text) = <<Placeholder>> \o emitted.rootPath
        /\ emitted.attached = "image" =>
              (Target(emitted.text) = emitted.rootPath /\ emitted.rootPath[1] # Placeholder)

C11_Witness ==
    /\ emitted.kind = "AttachmentLink" /\ emitted.html
    /\ emitted.attached = "document" /\ emitted.display = "image"
    /\ wikiRoot = DefaultRoot /\ emitted.pagePart = <<"GetGalaxy", "/", "GetGalaxy">>
    /\ Target(emitted.text) =
           <<Placeholder, "/", "src", "/", "GetGalaxy", "/", "GetGalaxy">>

\* C12: an interwiki link whose name is not mailto is looked up by its
\* lower-cased name; where that is not a key of the interwiki map, compose and
\* composeHtml fail with a lookup error and emit nothing, where it is they emit
\* a link to the entry's url; the map is never modified.
C12_UnknownInterWikiNameFails ==
    /\ interWikiMap = interWikiMapInitial
    /\ (emitted.kind = "InterWikiLink" /\ lower(emitted.interWikiName) # "mailto") =>
          IF lower(emitted.interWikiName) \in DOMAIN interWikiMapInitial
          THEN /\ ~emitted.raised
               /\ Target(emitted.text)[1] = interWikiMapInitial[lower(emitted.interWikiName)]
          ELSE /\ emitted.raised /\ emitted.error = "KeyError"
               /\ emitted.text = <<>>

C12_Witness ==
    /\ emitted.kind = "InterWikiLink" /\ emitted.html
    /\ emitted.interWikiName = "Bogus" /\ emitted.linkText = ExampleText
    /\ emitted.raised /\ emitted.error = "KeyError"

(***************************************************************************)
(* Claims about pages (checked under SpecPage).                            *)
(***************************************************************************)
\* the constructs whose composition fails
FailsToCompose(e) ==
    \/ e.kind \in {"RedirectPI", "RefreshPI", "FormatPI"}
    \/ /\ e.kind = "InterWikiLink"
       /\ lower(e.link.interWikiName) \notin DOMAIN interWikiMapInitial \cup {"mailto"}

\* C13: when a translation fails, in the creole test, in the parse or in the
\* composition of a redirect, a refresh, a creole format instruction or an
\* unknown interwiki name, the destination file has not been opened; it is
\* opened and written only once the parse and the composition of the whole
\* document are done.
C13_NoDestinationFileOnFailure ==
    /\ tpc \in {"failed", "composing"} => destFile = "unopened"
    /\ (\E i \in 1..Len(doc) : FailsToCompose(doc[i])) => tpc = "failed"
    /\ destFile # "unopened" =>
          /\ tpc = "done" /\ parsed /\ source = "wiki"
          /\ \A i \in 1..Len(doc) : ~FailsToCompose(doc[i])

C13_Witness ==
    /\ tpc = "failed" /\ destFile = "unopened"
    /\ Len(doc) = 3 /\ doc[1].kind = "TOCMacro" /\ doc[2].kind = "PlainText"
    /\ doc[3].kind = "InterWikiLink"
    /\ out = <<"a">> /\ pageYaml # {}

\* C14: a translation of a page whose first processing instruction is
\* #format text/creole, comment lines before it or not, has failed without
\* having called the parser and without any output.
C14_CreoleFailsBeforeParse ==
    source \in {"creole", "commentsThenCreole", "commentsThenCreoleUnparsable"} =>
        /\ tpc = "failed"
        /\ ~parsed
        /\ out = <<>> /\ destFile = "unopened"

\* the positions of the document holding an element of a kind
PositionsOf(kind) == {i \in 1..Len(doc) : doc[i].kind = kind}

Max(S) == CHOOSE x \in S : \A y \in S : y <= x

\* the title of the last title div of the document, without its ", "
LastTitle ==
    LET NotCommaSpace(piece) == piece # ", "
    IN  SelectSeq(doc[Max(PositionsOf("TitleDiv"))].title, NotCommaSpace)

\* the front-matter lines the document calls for: autotoc, which sorts before
\* title, where there is a table of contents; title where there is a title div
StatedFrontMatterLines ==
    (IF PositionsOf("TOCMacro") # {} THEN <<"autotoc", ": ", "true", "\n">> ELSE <<>>)
    \o (IF PositionsOf("TitleDiv") # {}
        THEN <<"title", ": ">> \o LastTitle \o <<"\n">> ELSE <<>>)

\* C15: the text written starts with a front-matter block, a --- line, one
\* "key: value" line per key and a --- line, exactly when composing the document
\* set a key; the block comes before all body text and lists each key once, in
\* sorted order, a key set more than once with the value written last.
C15_FrontMatterBlock ==
    tpc = "done" =>
        IF PositionsOf("TOCMacro") \cup PositionsOf("TitleDiv") # {}
        THEN destFile = <<"---", "\n">> \o StatedFrontMatterLines \o <<"---", "\n">> \o out
        ELSE destFile = out /\ (out # <<>> => out[1] # "---")

C15_Witness ==
    /\ tpc = "done"
    /\ Len(doc) = 3 /\ doc[1].kind = "TitleDiv" /\ doc[1].title = <<"B">>
    /\ doc[2].kind = "TOCMacro" /\ doc[3].kind = "TitleDiv"
    /\ destFile = <<"---", "\n", "autotoc", ": ", "true", "\n",
                    "title", ": ", "A", "B", "\n", "---", "\n">>

\* the step composes a table-of-contents macro
ComposesTOCMacro ==
    /\ tpc = "composing" /\ Len(doc') = Len(doc) + 1
    /\ doc'[Len(doc')].kind = "TOCMacro"

\* C16: composing a table-of-contents macro, with or without a maximum depth,
\* emits the empty string, sets the front-matter key autotoc to "true" and
\* leaves every other front-matter key and every toggle flag unchanged.
C16_TOCMacroSetsAutotocOnly ==
    [][ComposesTOCMacro =>
          /\ out' = out /\ tpc' = "composing"
          /\ <<"autotoc", <<"true">>>> \in pageYaml'
          /\ \A kv \in pageYaml' : kv[1] = "autotoc" => kv[2] = <<"true">>
          /\ {kv \in pageYaml' : kv[1] # "autotoc"} = {kv \in pageYaml : kv[1] # "autotoc"}
          /\ UNCHANGED <<inBold, inItalic, inUnderline, inCodeBlock>>]_vars

C16_Witness ==
    /\ tpc = "composing" /\ Len(doc) = 3
    /\ doc[1].kind = "TitleDiv" /\ doc[2].kind = "Bold"
    /\ doc[3].kind = "TOCMacro" /\ doc[3].maxDepth = "2"
    /\ inBold /\ out = <<"<strong>">>
    /\ pageYaml = {<<"autotoc", <<"true">>>>, <<"title", <<"A", "B">>>>}

(***************************************************************************)
(* Claims about inline tokens (checked under SpecInline).                  *)
(***************************************************************************)
\* the step composes a token, the last of doc'
ComposesToken == tpc = "composing" /\ Len(doc') = Len(doc) + 1 /\ tpc' = "composing"

ComposedToken == doc'[Len(doc')]

EmittedToken == out'[Len(out')]

\* the text every earlier Markdown composition of the same token emitted
SameTokenAsBefore ==
    /\ Len(out') = Len(out) + 1
    /\ \A i \in 1..Len(doc) : doc[i] = ComposedToken => out[i] = EmittedToken

MarkdownToken(e) ==
    CASE e.kind = "Bold" -> "**"
      [] e.kind = "Italic" -> "*"
      [] e.kind = "FontSizeChangeStart" ->
            IF e.direction = "+" THEN "<span style=\"font-size: larger;\">"
            ELSE "<span style=\"font-size: smaller;\">"
      [] e.kind = "FontSizeChangeEnd" -> "</span>"

Lines(text) == split(text, "\n")

LeadingBlanks(line) == run(line, 1, {" "})

\* a line with its n leading spaces replaced by the marker of n
Marked(line) ==
    LET n == LeadingBlanks(line)
    IN  <<"@INDENT-">> \o strInt(n) \o <<"@">> \o SubSeq(line, n + 1, Len(line))

\* the text whose lines are those of srcText, each as Mark gives it
LineByLine(Mark(_)) ==
    LET lines == Lines(srcText)
    IN  join("\n", [k \in 1..Len(lines) |-> Mark(lines[k])])

\* the lines of a text that hold a word
WordLines(text) ==
    LET HasWord(line) == \E k \in 1..Len(line) : line[k] \notin Whitespace
    IN  SelectSeq(Lines(text), HasWord)

\* the composed text has every indented line of the source that holds a word,
\* with as many leading spaces as the source
MarkersComposeToSpaces == tpc = "done" => WordLines(out) = WordLines(srcText)

\* C18 as stated: identifyIndents replaces every run of n >= 1 leading spaces on
\* a line by the marker @INDENT-n@, leaves every line without leading spaces
\* unchanged, and LeadingSpaces.compose turns a marker of depth n back into n
\* spaces.
C18_EveryLeadingRunMarked ==
    LET StatedLine(line) == IF LeadingBlanks(line) >= 1 THEN Marked(line) ELSE line
    IN  /\ tpc # "idle" => moinText = LineByLine(StatedLine)
        /\ MarkersComposeToSpaces

\* C18, amended: identifyIndents replaces every run of n >= 1 leading spaces on
\* a line that a character other than white space follows by the marker
\* @INDENT-n@, leaves every other line unchanged (one without leading spaces as
\* one of spaces alone), and LeadingSpaces.compose turns a marker of depth n
\* back into n spaces.
C18_LeadingRunBeforeTextMarked ==
    LET AmendedLine(line) ==
            IF LeadingBlanks(line) >= 1 /\ LeadingBlanks(line) < Len(line)
            THEN Marked(line) ELSE line
    IN  /\ tpc # "idle" => moinText = LineByLine(AmendedLine)
        /\ MarkersComposeToSpaces

\* an indented line and a line of spaces alone, translated
C18_Witness ==
    /\ tpc = "done"
    /\ srcText = <<" ", " ", "a", "\n", " ">>
    /\ moinText = <<"@INDENT-", "2", "@", "a", "\n", " ">>
    /\ out = srcText

\* C19: for every document of plain words and white space alone (spaces and
\* newlines, with indented lines, trailing spaces and lines of white space
\* alone), the indent pre-pass, the parse as a Document and compose give the
\* input text unchanged.
C19_PlainTextRoundTrip == tpc = "done" => out = srcText /\ destFile = srcText

(***************************************************************************)
(* Claims about the WikiWord grammar (checked under SpecWikiWord).         *)
(***************************************************************************)
\* one capital letter followed by one or more lowercase letters or digits,
\* once or more: the number of capitals is returned, 0 if text is not of
\* that form
CapitalizedParts(text) ==
    IF /\ text # <<>> /\ text[1] \in Upper
       /\ \A k \in 1..Len(text) :
            /\ text[k] \in Upper \cup LowerDigit
            /\ text[k] \in Upper => k < Len(text) /\ text[k + 1] \in LowerDigit
    THEN Cardinality({k \in 1..Len(text) : text[k] \in Upper})
    ELSE 0

\* text can be cut into path segments, each an optional / and at least two
\* capitalized parts
IsSegments(text) ==
    \E cuts \in SUBSET (1..Len(text)) :
        /\ 1 \in cuts
        /\ \A c \in cuts :
            LET next == IF \E d \in cuts : d > c
                        THEN (CHOOSE d \in cuts : d > c /\ \A e \in cuts : e > c => d <= e)
                        ELSE Len(text) + 1
                piece == SubSeq(text, c, next - 1)
                segment == IF piece[1] = "/" THEN Tail(piece) ELSE piece
            IN  CapitalizedParts(segment) >= 2

C22_MailToIsMarkdownLink ==
    /\ emitted.kind = "InterWikiLink" /\ lower(emitted.interWikiName) = "mailto"
    /\ ~emitted.html /\ ~emitted.raised
    => emitted.text =
          <<"[", (IF emitted.linkText # "" THEN emitted.linkText ELSE emitted.pagePart[1]),
            "](", "mailto:", emitted.pagePart[1], ")">>

(***************************************************************************)
(* More claims about lists (checked under SpecList).                       *)
(***************************************************************************)
\* the step is a turn of the loop of MoinList.compose: it tracks and composes
\* an item
ComposesItem ==
    /\ lpc \in {"idle", "inList"} /\ lpc' = "inList"
    /\ Len(listItems') = (IF lpc = "inList" THEN Len(listItems) ELSE 0) + 1

\* the code block open now was open already when the last item was tracked
OpenSinceLastItem ==
    /\ lpc = "inList" /\ inCodeBlock
    /\ listItems[Len(listItems)].item # "CodeBlockStart"

\* C23: while a code block stays open during the composition of a list, the
\* base depth added to every item's marker depth is the value captured when
\* the block opened and does not change on later items until the block
\* closes; where no code block is open the base depth used is 0.
C23_BaseDepthFixedWhileBlockOpen ==
    [][ComposesItem =>
          /\ ~inCodeBlock => bases'[Len(bases')] = 0
          /\ OpenSinceLastItem => bases'[Len(bases')] = bases[Len(bases)]]_vars

\* the level before the i-th item of the list at hand
LevelBefore(i) == IF i = 1 THEN 0 ELSE levels[i - 1]

\* C29: across the consecutive items of one list the indent level trackIndent
\* returns is never negative and is never more than one above the level of
\* the item before (0 before the first item); an item whose absolute depth is
\* no deeper than that of the item before never gets a higher level.
C29_LevelsStepUpByOne ==
    lpc \in {"inList", "ended"} =>
        \A i \in 1..Len(listItems) :
            /\ levels[i] >= 0
            /\ levels[i] <= LevelBefore(i) + 1
            /\ (i > 1 /\ AbsDepth(i) <= AbsDepth(i - 1)) => levels[i] <= levels[i - 1]

C29_Witness ==
    /\ lpc = "inList"
    /\ ItemDepthsSeen = <<1, 2, 3, 1>> /\ bases = <<0, 0, 0, 0>>
    /\ levels = <<0, 1, 2, 0>>

StrictlyIncreasing(stack) == \A i \in 1..(Len(stack) - 1) : stack[i] < stack[i + 1]

\* C30: after every call of trackIndent on a non-empty, strictly increasing
\* depth stack the stack is non-empty and strictly increasing still, and its
\* top is the absolute depth of the item (marker depth + base), also where
\* the item is shallower than every depth on the stack.
C30_StackIncreasingTopIsItemDepth ==
    lpc = "inList" =>
        /\ depths # <<>>
        /\ StrictlyIncreasing(depths)
        /\ Top(depths) = AbsDepth(Len(listItems))

\* an item at depth 1 after items at depths 2 and 3, the first of the list
\* at depth 2: shallower than every depth on the stack
C30_Witness ==
    /\ lpc = "inList"
    /\ ItemDepthsSeen = <<2, 3, 1>> /\ bases = <<0, 0, 0>>
    /\ depths = <<1>>

(***************************************************************************)
(* More claims about WikiWords and paths (checked under SpecLink).         *)
(***************************************************************************)
\* the step composes a WikiWord, in either mode
ComposesWikiWord == emitted.kind = "none" /\ emitted'.kind = "WikiWord"

\* the text holds a link of either mode
IsLinked(text) ==
    \E i \in 1..Len(text) : text[i] \in {"](", "<a href=\""}

ResolvedPath ==
    /\ emitted.kind \in {"InternalLink", "WikiWord", "InternalImagePath"}
    /\ ~emitted.raised
    /\ emitted.pagePart # <<>>
    /\ emitted.kind = "InternalImagePath" => hasDirectoryInPath(emitted.pagePart)

\* C25 as stated: for every wiki-root prefix R, of one path component or of
\* several, a sub-page path /P resolves to R/P and a root-relative path P (no
\* leading / or ../) resolves to R/P, for page paths and for image paths that
\* contain a directory.
C25_PathsResolveAgainstWholeRoot ==
    ResolvedPath =>
        /\ isSubPageLink(emitted.pagePart) =>
              emitted.rootPath = wikiRoot \o emitted.pagePart
        /\ isRootRelativeLink(emitted.pagePart) =>
              emitted.rootPath = wikiRoot \o <<"/">> \o emitted.pagePart

\* C25 as the code has it: a sub-page path /P resolves to R/P for every R; a
\* root-relative path P resolves to /R1/P, where R1 is the first component of
\* R, which is R/P when R has one component only.
C25_RootRelativeAgainstFirstComponent ==
    ResolvedPath =>
        /\ isSubPageLink(emitted.pagePart) =>
              emitted.rootPath = wikiRoot \o emitted.pagePart
        /\ isRootRelativeLink(emitted.pagePart) =>
              /\ emitted.rootPath =
                    <<"/">> \o wikiRootParts[1] \o <<"/">> \o emitted.pagePart
              /\ Len(wikiRootParts) = 1 =>
                    emitted.rootPath = wikiRoot \o <<"/">> \o emitted.pagePart

C25_Witness ==
    /\ emitted.kind = "InternalLink"
    /\ wikiRoot = <<"/", "a", "/", "b", "/", "c">>
    /\ emitted.pagePart = <<"GetGalaxy", "/", "GetGalaxy">>
    /\ emitted.rootPath = <<"/", "a", "/", "GetGalaxy", "/", "GetGalaxy">>

(***************************************************************************)
(* Claims about region macros (checked under SpecRegion).                  *)
(***************************************************************************)
\* how many elements of the sequence are in the set
RECURSIVE CountIn(_, _)
CountIn(seq, set) ==
    IF seq = <<>> THEN 0
    ELSE (IF Head(seq) \in set THEN 1 ELSE 0) + CountIn(Tail(seq), set)

KindsOf(elements) == [i \in 1..Len(elements) |-> elements[i].kind]

\* every closing form of the macro closes an opening form before it, and no
\* opening form is left open
Matched(kinds, opening, closing) ==
    /\ CountIn(kinds, {opening}) = CountIn(kinds, {closing})
    /\ \A n \in 1..Len(kinds) :
          CountIn(SubSeq(kinds, 1, n), {closing}) <= CountIn(SubSeq(kinds, 1, n), {opening})

\* C27: <<span(class)>> emits an opening span tag and <<span>> the closing tag
\* of the same element, so a page whose span macros are matched has as many
\* opening as closing span tags and no unmatched tag of another element.
C27_SpanMacrosEmitMatchedSpanTags ==
    (/\ tpc \in {"composing", "done"}
     /\ doc # <<>>
     /\ \A i \in 1..Len(doc) : doc[i].kind \in {"SpanMacro", "SpanEndMacro"}
     /\ Matched(KindsOf(doc), "SpanMacro", "SpanEndMacro")) =>
        /\ CountIn(out, {"<span class='"}) = CountIn(KindsOf(doc), {"SpanMacro"})
        /\ CountIn(out, {"<span class='"}) = CountIn(out, {"</span>"})
        /\ CountIn(out, {"<div class='"}) = CountIn(out, {"</div>"})

(***************************************************************************)
(* Claims about the simplified table format (checked under SpecRow).       *)
(***************************************************************************)
\* the lines of the table text, without their line ends; the text starts with
\* an empty line
TableLines == split(tblOut, "\n")

\* the lengths of the runs of hyphens of a line, from the left
RECURSIVE DashRuns(_, _)
DashRuns(line, open) ==
    IF line = <<>> THEN (IF open > 0 THEN <<open>> ELSE <<>>)
    ELSE IF Head(line) = "-" THEN DashRuns(Tail(line), open + 1)
    ELSE (IF open > 0 THEN <<open>> ELSE <<>>) \o DashRuns(Tail(line), 0)

\* a line of hyphens, bars and spaces, with a hyphen
IsSeparatorLine(line) ==
    /\ \A i \in 1..Len(line) : line[i] \in {"-", "|", " "}
    /\ \E i \in 1..Len(line) : line[i] = "-"

SeparatorLines == {i \in 1..Len(TableLines) : IsSeparatorLine(TableLines[i])}

\* C26: in the simplified format every run of hyphens of the separator line
\* has 3 hyphens or more: max(3, L - 3) for the first cell, L the length of
\* its text with the leading "| ", and max(3, L - 1) for another cell, L the
\* length of its text with its one leading space.
C26_DashRunLengths ==
    tblResult = "gfm" =>
        \A l \in SeparatorLines :
            LET runs == DashRuns(TableLines[l], 0)
                header == table[1]
            IN  /\ \A i \in 1..Len(runs) : runs[i] >= 3
                /\ Len(runs) = 1 + Len(header.rowCells)
                /\ runs[1] = max(3, (2 + Len(header.firstCellContent)) - 3)
                /\ \A i \in 1..Len(header.rowCells) :
                      runs[i + 1] = max(3, (1 + Len(header.rowCells[i].cellContent)) - 1)

C26_Witness ==
    /\ tblResult = "gfm"
    /\ Len(table[1].rowCells) = 1
    /\ Len(table[1].firstCellContent) = 5
    /\ Len(table[1].rowCells[1].cellContent) = 0
    /\ DashRuns(TableLines[3], 0) = <<4, 3>>

\* C28: a table rendered in the simplified format has one separator line and
\* no more; it is the line after the first row, and it has as many runs of
\* hyphens as the first row has cells; no later row gives one.
C28_OneSeparatorAfterFirstRow ==
    tblResult = "gfm" =>
        /\ SeparatorLines = {3}
        /\ TableLines[1] = <<>> /\ TableLines[2] # <<>>
        /\ Len(DashRuns(TableLines[3], 0)) = 1 + Len(table[1].rowCells)
        /\ Len(TableLines) = Len(table) + 3

C28_Witness ==
    /\ tblResult = "gfm"
    /\ Len(table) = 2 /\ Len(table[1].rowCells) = 1
    /\ SeparatorLines = {3}
    /\ ~IsSeparatorLine(TableLines[4])

=============================================================================
